---- MODULE Spec2Model ----
(***************************************************************************)
(* Instanced panel buffer group of the uikit package.                      *)
(*                                                                         *)
(* InstancedPanelGroup (panel/instanced-panel-group.ts) owns a capacity,   *)
(* the instance arrays and the update scheduling; it places panels with    *)
(* the sorted-bucket allocator (allocation/sorted-buckets.ts).  The group  *)
(* is translated from its source.  The allocator's source is not part of   *)
(* the files at hand: its four functions are modelled from the design      *)
(* document (sections 3 and 4.1) and are marked as such below.             *)
(*                                                                         *)
(* The three instance arrays (matrix, data, clipping) are always resized,  *)
(* copied and indexed together; they are modelled as one array whose entry *)
(* at a slot is the panel whose instance data the slot holds (0: zeroed).  *)
(* Times are kept relative to the current instant: a stored time t stands  *)
(* for performance.now() + t.                                              *)
(***************************************************************************)
EXTENDS Integers, Sequences, FiniteSets, TLC

\* ---------------------------------------------------------------- bounds
MaxElems == 3
MaxBucketIndex == 1
TimeStep == 1000

\* ------------------------------------------------------ program constants
\* delete(): this.requestUpdate(1000)
DeleteDelay == 1000

Elems == 1..MaxElems
BucketIndices == 0..MaxBucketIndex

\* elementIndex: number | undefined -- the index of a panel that was never activated
NoIndex == -1

\* an array entry that holds data, but not the data of the panel placed at that slot:
\* what a deleted panel or a compaction copy left behind
Stale == -2

\* nextUpdateTime: typeof nextFrame | number | undefined
Undefined == [kind |-> "undefined", at |-> 0]
nextFrame == [kind |-> "nextFrame", at |-> 0]
AtTime(t) == [kind |-> "time", at |-> t]

\* nextUpdateTimeoutRef: NodeJS.Timeout | undefined
NoTimeout == [set |-> FALSE, at |-> 0]
Timeout(t) == [set |-> TRUE, at |-> t]

VARIABLES
    buckets,               \* Array<Bucket<InstancedPanel>>, ascending by bucketIndex
    slot,                  \* allocator: the slot that currently holds a panel's data
    indexInBucket,         \* panel: the index it was told by activate / setIndexInBucket
    instanceData,          \* the instance arrays, one entry per slot
    elementCount,
    bufferElementSize,
    nextUpdateTime,
    nextUpdateTimeoutRef,
    timers,                \* the host's pending setTimeout calls (time left of each)
    mesh,                  \* InstancedPanelMesh: exists / count / visible
    disposed,              \* destroy() has run: what it released
    unserved,              \* deletes whose rearrangement has not run: 0, 1, or 2 for several
    last,                  \* the last call: its name, results and the steps of update()
    \* PanelGroupManager
    map,                   \* Map<MaterialClass, Map<number, InstancedPanelGroup>>
    renderOrder,           \* Signal<number>: its value
    depthTest,             \* Signal<boolean>: its value
    onFrameSet,            \* root.onFrameSet holds the manager's onFrame
    subscriptions,         \* the initializers have not run / have run / were cleaned up
    constructions,         \* calls of the InstancedPanelGroup constructor so far
    ticked,                \* the groups whose onFrame the last step has called
    \* HTML conversion
    document,              \* the parsed html: the child nodes of the parser's root element
    converted,             \* what convertParsedHtml returned for it
    \* deferred layout request of the root
    requestedNode,         \* let requestedNode: FlexNode | undefined
    calculating,           \* the node whose calculateLayout() is running, if any
    layoutSubscribed,      \* root.onFrameSet holds the onFrame of the deferred request
    calculations,          \* calls of calculateLayout() so far, per node
    lastLayout             \* the last call: its name, its arguments and what it did

groupVars == <<buckets, slot, indexInBucket, instanceData, elementCount, bufferElementSize,
               nextUpdateTime, nextUpdateTimeoutRef, timers, mesh, disposed, unserved, last>>

managerVars == <<map, renderOrder, depthTest, onFrameSet, subscriptions, constructions,
                 ticked>>

convertVars == <<document, converted>>

layoutVars == <<requestedNode, calculating, layoutSubscribed, calculations, lastLayout>>

vars == <<groupVars, managerVars, convertVars, layoutVars>>

\* ------------------------------------------------------------- utilities
RemoveAt(s, i) == [j \in 1..(Len(s) - 1) |-> IF j < i THEN s[j] ELSE s[j + 1]]
InsertAt(s, i, x) ==
    [j \in 1..(Len(s) + 1) |-> IF j < i THEN s[j] ELSE IF j = i THEN x ELSE s[j - 1]]

IndexOf(s, x) == IF \E i \in 1..Len(s) : s[i] = x
                 THEN CHOOSE i \in 1..Len(s) : s[i] = x
                 ELSE 0

\* Math.ceil(n * 1.5)
CeilOneAndAHalf(n) == (3 * n + 1) \div 2

\* the state of one group as a record, so that the methods compose as in the source
State ==
    [buckets |-> buckets, slot |-> slot, indexInBucket |-> indexInBucket,
     instanceData |-> instanceData, elementCount |-> elementCount,
     bufferElementSize |-> bufferElementSize, nextUpdateTime |-> nextUpdateTime,
     nextUpdateTimeoutRef |-> nextUpdateTimeoutRef, timers |-> timers, mesh |-> mesh,
     needsRearrange |-> FALSE, ranUpdate |-> FALSE, threw |-> FALSE, log |-> <<>>]

\* ------------------------------------------- callbacks of InstancedPanelGroup
\* Writing a slot outside the array changes nothing in the array.
WriteSlot(data, index, value) ==
    [s \in DOMAIN data |-> IF s = index THEN value ELSE data[s]]


\* The slots a callback reads or writes: a slot outside the arrays is put on record
\* in the log of the call (TypedArray.set throws on it, fill and copyWithin clamp).
Touching(S, slots) ==
    IF slots \subseteq DOMAIN S.instanceData
    THEN S
    ELSE [S EXCEPT !.log = Append(S.log, "outOfBounds")]

\* activateElement that tells the panel index 0 whatever its index is
activateElement_indexZero(S, element, bucket, index) ==
    [S EXCEPT !.instanceData = WriteSlot(S.instanceData, bucket.offset + index, element),
              !.indexInBucket = [S.indexInBucket EXCEPT ![element] = 0]]

\* activateElement: the panel's data is written at bucket.offset + indexInBucket
\* and the panel is told its bucket and index
activateElement(S, element, bucket, index) ==
    [Touching(S, {bucket.offset + index})
        EXCEPT !.instanceData = WriteSlot(S.instanceData, bucket.offset + index, element),
               !.indexInBucket = [S.indexInBucket EXCEPT ![element] = index]]

\* setElementIndex that does not tell the panel
setElementIndex_nothing(S, element, index) == S

\* setElementIndex: element.setIndexInBucket(index)
setElementIndex(S, element, index) ==
    [S EXCEPT !.indexInBucket = [S.indexInBucket EXCEPT ![element] = index]]

\* copyWithinAttribute: array.copyWithin(target, start, end) on every instance array;
\* the range is clamped to the array as TypedArray.copyWithin clamps it
copyWithinAttribute(data, targetIndex, startIndex, endIndex) ==
    [s \in DOMAIN data |->
        IF /\ s >= targetIndex
           /\ s < targetIndex + (endIndex - startIndex)
           /\ (startIndex + (s - targetIndex)) \in DOMAIN data
        THEN data[startIndex + (s - targetIndex)]
        ELSE data[s]]

\* bufferCopyWithin that copies nothing
bufferCopyWithin_nothing(S, targetIndex, startIndex, endIndex) == S

bufferCopyWithin(S, targetIndex, startIndex, endIndex) ==
    [Touching(S, (startIndex..(endIndex - 1))
                    \cup (targetIndex..(targetIndex + endIndex - startIndex - 1)))
        EXCEPT !.instanceData = copyWithinAttribute(S.instanceData, targetIndex,
                                                    startIndex, endIndex)]

\* clearBufferAt that leaves the matrix as it is
clearBufferAt_nothing(S, index) == S

\* clearBufferAt that zeroes the whole array
clearBufferAt_all(S, index) ==
    [S EXCEPT !.instanceData = [s \in DOMAIN S.instanceData |-> 0]]

\* clearBufferAt: a 0 matrix hides the instance at this slot
clearBufferAt(S, index) ==
    [Touching(S, {index}) EXCEPT !.instanceData = WriteSlot(S.instanceData, index, 0)]

\* ------------------------------------------------- sorted-bucket allocator
\* position of the bucket with this index in the sorted list, 0 if there is none
BucketPos(bs, bucketIndex) ==
    IF \E k \in 1..Len(bs) : bs[k].bucketIndex = bucketIndex
    THEN CHOOSE k \in 1..Len(bs) : bs[k].bucketIndex = bucketIndex
    ELSE 0

\* ordered insertion point: the result of the binary search over the bucket indices
InsertionPoint(bs, bucketIndex) ==
    Cardinality({k \in 1..Len(bs) : bs[k].bucketIndex < bucketIndex}) + 1

RECURSIVE SizeOfPrefix(_, _)
SizeOfPrefix(bs, k) ==
    IF k = 0 THEN 0 ELSE SizeOfPrefix(bs, k - 1) + Len(bs[k].elements)

\* every bucket's offset as the running sum of the sizes of the buckets before it
WithRunningOffsets(bs) ==
    [k \in 1..Len(bs) |-> [bs[k] EXCEPT !.offset = SizeOfPrefix(bs, k - 1)]]

\* every element of bucket k is placed, in order, without a hole, from the bucket's offset
IsClean(bs, k, slots) ==
    \A i \in 1..Len(bs[k].elements) : slots[bs[k].elements[i]] = bs[k].offset + i - 1

\* all elements in bucket order
RECURSIVE ElementsUpTo(_, _)
ElementsUpTo(bs, k) ==
    IF k = 0 THEN <<>> ELSE ElementsUpTo(bs, k - 1) \o bs[k].elements

AllElements(bs) == ElementsUpTo(bs, Len(bs))

BucketOf(bs, element) ==
    CHOOSE k \in 1..Len(bs) : IndexOf(bs[k].elements, element) > 0

IsLive(bs, element) ==
    \E k \in 1..Len(bs) : IndexOf(bs[k].elements, element) > 0

\* addToSortedBuckets: TRUE in needsRearrange iff updateSortedBucketsAllocation is needed
addToSortedBuckets(S, bucketIndex, element) ==
    LET bs0 == S.buckets
        found == BucketPos(bs0, bucketIndex)
        k == InsertionPoint(bs0, bucketIndex)
        created == [bucketIndex |-> bucketIndex,
                    offset |-> IF k = 1 THEN 0
                               ELSE bs0[k - 1].offset + Len(bs0[k - 1].elements),
                    elements |-> <<>>]
        bs == IF found = 0 THEN InsertAt(bs0, k, created) ELSE bs0
        bucket == bs[k]
        index == Len(bucket.elements)
        candidate == bucket.offset + index
        \* the slack of the arrays lies behind the last bucket: the next slot of that
        \* bucket is free when the bucket is clean and every placed element lies below
        hasCleanSlack == /\ k = Len(bs)
                         /\ IsClean(bs, k, S.slot)
                         /\ candidate < S.bufferElementSize
                         /\ \A e \in Elems : IsLive(bs, e) => S.slot[e] < candidate
        appended == [bs EXCEPT ![k].elements = Append(bucket.elements, element)]
    IN  IF hasCleanSlack
        THEN activateElement(
                 [S EXCEPT !.buckets = appended,
                           !.slot = [S.slot EXCEPT ![element] = candidate],
                           !.needsRearrange = FALSE],
                 element, bucket, index)
        ELSE [S EXCEPT !.buckets = appended,
                       !.slot = [S.slot EXCEPT ![element] = NoIndex],
                       !.needsRearrange = TRUE]

\* removeFromSortedBuckets: TRUE in needsRearrange iff the removal leaves a hole
removeFromSortedBuckets(S, bucketIndex, element, elementIndex) ==
    LET bs == S.buckets
        k == BucketPos(bs, bucketIndex)
        bucket == bs[k]
        i == IndexOf(bucket.elements, element)
        isLast == k = Len(bs) /\ i = Len(bucket.elements)
        remaining == RemoveAt(bucket.elements, i)
        bs1 == IF remaining = <<>>
               THEN RemoveAt(bs, k)
               ELSE [bs EXCEPT ![k].elements = remaining]
        S1 == [S EXCEPT !.buckets = bs1,
                        !.slot = [S.slot EXCEPT ![element] = NoIndex],
                        !.indexInBucket = [S.indexInBucket EXCEPT ![element] = NoIndex]]
    IN  IF isLast
        THEN [(IF elementIndex = NoIndex
               THEN S1
               ELSE clearBufferAt(S1, bucket.offset + elementIndex))
              EXCEPT !.needsRearrange = FALSE]
        ELSE [S1 EXCEPT !.needsRearrange = TRUE]

RECURSIVE CopyInto(_, _, _)
CopyInto(S, moves, target) ==
    IF moves = <<>> THEN S
    ELSE LET e == Head(moves)
         IN  CopyInto(bufferCopyWithin(S, target[e], S.slot[e], S.slot[e] + 1),
                      Tail(moves), target)

RECURSIVE Notify(_, _, _)
Notify(S, elements, bs) ==
    IF elements = <<>> THEN S
    ELSE LET e == Head(elements)
             bucket == bs[BucketOf(bs, e)]
             index == IndexOf(bucket.elements, e) - 1
         IN  Notify(IF S.slot[e] = NoIndex THEN activateElement(S, e, bucket, index)
                    ELSE IF S.indexInBucket[e] # index THEN setElementIndex(S, e, index)
                    ELSE S,
                    Tail(elements), bs)

Reverse(s) == [j \in 1..Len(s) |-> s[Len(s) + 1 - j]]

\* updateSortedBucketsAllocation: the rearrangement (compaction) pass
updateSortedBucketsAllocation(S) ==
    LET bs == WithRunningOffsets(S.buckets)
        all == AllElements(bs)
        target == [e \in Elems |->
                     IF IsLive(bs, e)
                     THEN bs[BucketOf(bs, e)].offset + IndexOf(bs[BucketOf(bs, e)].elements, e) - 1
                     ELSE NoIndex]
        \* elements moving down are copied in ascending order, elements moving up in
        \* descending order: no copy overwrites data that still has to be moved
        down == SelectSeq(all, LAMBDA e : S.slot[e] # NoIndex /\ target[e] < S.slot[e])
        up == Reverse(SelectSeq(all, LAMBDA e : S.slot[e] # NoIndex /\ target[e] > S.slot[e]))
        copied == CopyInto(S, down \o up, target)
        notified == Notify(copied, all, bs)
    IN  [notified EXCEPT !.buckets = bs,
                         !.slot = target,
                         !.log = Append(S.log, "rearrange")]

\* resizeSortedBucketsSpace: the offsets for the new capacity; no array content moves
resizeSortedBucketsSpace(S, oldSize, newSize) ==
    [S EXCEPT !.buckets = WithRunningOffsets(S.buckets)]

\* ------------------------------------------------------ InstancedPanelGroup
\* clearTimeout(this.nextUpdateTimeoutRef)
clearTimeout(S) ==
    IF S.nextUpdateTimeoutRef.set
    THEN [S EXCEPT !.timers = S.timers \ {S.nextUpdateTimeoutRef.at}]
    ELSE S

\* updateCount: reading the last bucket of an empty bucket list raises a TypeError
updateCount(S) ==
    IF S.buckets = <<>>
    THEN [S EXCEPT !.threw = TRUE]
    ELSE LET lastBucket == S.buckets[Len(S.buckets)]
             count == lastBucket.offset + Len(lastBucket.elements)
         IN  IF ~S.mesh.exists
             THEN S
             ELSE [S EXCEPT !.mesh = [exists |-> TRUE, count |-> count, visible |-> count > 0]]


\* requestUpdate that starts one more timeout with every request
requestUpdate_everyTime(S, time) ==
    IF S.nextUpdateTime = nextFrame
    THEN S
    ELSE [S EXCEPT !.nextUpdateTime = AtTime(time),
                   !.timers = @ \cup {time},
                   !.nextUpdateTimeoutRef = Timeout(time)]

\* requestUpdate that replaces an earlier deadline
requestUpdate_postpones(S, time) ==
    IF S.nextUpdateTime = nextFrame
    THEN S
    ELSE [clearTimeout(S) EXCEPT !.nextUpdateTime = AtTime(time),
                                 !.timers = @ \cup {time},
                                 !.nextUpdateTimeoutRef = Timeout(time)]

requestUpdate(S, time) ==
    IF S.nextUpdateTime = nextFrame
    THEN S
    ELSE LET forTime == time
         IN  IF S.nextUpdateTime # Undefined /\ S.nextUpdateTime.at < forTime
             THEN S
             ELSE [clearTimeout(S) EXCEPT !.nextUpdateTime = AtTime(forTime),
                                          !.timers = @ \cup {time},
                                          !.nextUpdateTimeoutRef = Timeout(time)]


\* requestUpdateNextFrame that leaves the timeout running
requestUpdateNextFrame_keepTimeout(S) ==
    [S EXCEPT !.nextUpdateTime = nextFrame,
              !.nextUpdateTimeoutRef = NoTimeout]

requestUpdateNextFrame(S) ==
    [clearTimeout(S) EXCEPT !.nextUpdateTime = nextFrame,
                            !.nextUpdateTimeoutRef = NoTimeout]


\* insert that never asks for an update
insert_noRequest(S, bucketIndex, panel) ==
    updateCount(addToSortedBuckets([S EXCEPT !.elementCount = S.elementCount + 1],
                                   bucketIndex, panel))

\* insert that asks for an update on the fast path too
insert_alwaysRequests(S, bucketIndex, panel) ==
    requestUpdateNextFrame(
        addToSortedBuckets([S EXCEPT !.elementCount = S.elementCount + 1],
                           bucketIndex, panel))

\* insert that asks for the rearrangement with the delay of a delete
insert_delayed(S, bucketIndex, panel) ==
    LET counted == [S EXCEPT !.elementCount = S.elementCount + 1]
        added == addToSortedBuckets(counted, bucketIndex, panel)
    IN  IF ~added.needsRearrange
        THEN updateCount(added)
        ELSE requestUpdate(added, DeleteDelay)

\* insert that does not count the panel
insert_uncounted(S, bucketIndex, panel) ==
    LET added == addToSortedBuckets(S, bucketIndex, panel)
    IN  IF ~added.needsRearrange
        THEN updateCount(added)
        ELSE requestUpdateNextFrame(added)

insert(S, bucketIndex, panel) ==
    LET counted == [S EXCEPT !.elementCount = S.elementCount + 1]
        added == addToSortedBuckets(counted, bucketIndex, panel)
    IN  IF ~added.needsRearrange
        THEN updateCount(added)
        ELSE requestUpdateNextFrame(added)

\* delete that asks for the rearrangement on the next frame
delete_nextFrame(S, bucketIndex, elementIndex, panel) ==
    LET counted == [S EXCEPT !.elementCount = S.elementCount - 1]
        removed == removeFromSortedBuckets(counted, bucketIndex, panel, elementIndex)
    IN  IF ~removed.needsRearrange
        THEN updateCount(removed)
        ELSE requestUpdateNextFrame(removed)

\* delete that counts the panel out and leaves it in its bucket
delete_keepsElement(S, bucketIndex, elementIndex, panel) ==
    requestUpdate([S EXCEPT !.elementCount = S.elementCount - 1], DeleteDelay)

\* delete that sets the draw count on the slow path too
delete_countsDraw(S, bucketIndex, elementIndex, panel) ==
    LET counted == [S EXCEPT !.elementCount = S.elementCount - 1]
        removed == removeFromSortedBuckets(counted, bucketIndex, panel, elementIndex)
    IN  IF ~removed.needsRearrange
        THEN updateCount(removed)
        ELSE requestUpdate(updateCount(removed), DeleteDelay)

delete(S, bucketIndex, elementIndex, panel) ==
    LET counted == [S EXCEPT !.elementCount = S.elementCount - 1]
        removed == removeFromSortedBuckets(counted, bucketIndex, panel, elementIndex)
    IN  IF ~removed.needsRearrange
        THEN updateCount(removed)
        ELSE requestUpdate(removed, DeleteDelay)


\* Math.ceil(count / 1.5)
newBufferElementSize_divided(count) == (2 * count + 2) \div 3

\* Math.ceil(count * 3)
newBufferElementSize_tripled(count) == 3 * count

\* this.bufferElementSize = Math.ceil(this.elementCount * 1.5)
newBufferElementSize(count) == CeilOneAndAHalf(count)


\* a new array without the old contents
resizedArray_empty(data, size) ==
    [s \in 0..(size - 1) |-> 0]

\* a new array whose added entries are not zero
resizedArray_unzeroed(data, size) ==
    [s \in 0..(size - 1) |-> IF s \in DOMAIN data THEN data[s] ELSE Stale]

\* new Float32Array(size * 16) with the old array's prefix copied into it
resizedArray(data, size) ==
    [s \in 0..(size - 1) |-> IF s \in DOMAIN data THEN data[s] ELSE 0]

resize(S) ==
    LET oldBufferSize == S.bufferElementSize
        size == newBufferElementSize(S.elementCount)
        sized == [S EXCEPT !.bufferElementSize = size]
        spaced == resizeSortedBucketsSpace(sized, oldBufferSize, size)
    IN  [spaced EXCEPT !.instanceData = resizedArray(S.instanceData, size),
                       !.mesh = [exists |-> TRUE, count |-> 0, visible |-> TRUE],
                       !.log = Append(S.log, "resize")]


\* update that leaves the elements where they are when the capacity fits
update_skipInPlace(S) ==
    IF S.elementCount = 0
    THEN IF S.mesh.exists THEN [S EXCEPT !.mesh.visible = FALSE] ELSE S
    ELSE LET arranged ==
                 IF S.elementCount > S.bufferElementSize
                 THEN updateSortedBucketsAllocation(resize(S))
                 ELSE IF 3 * S.elementCount <= S.bufferElementSize
                      THEN resize(updateSortedBucketsAllocation(S))
                      ELSE S
         IN  [arranged EXCEPT !.mesh = [exists |-> arranged.mesh.exists,
                                        count |-> S.elementCount,
                                        visible |-> TRUE]]

\* update that shrinks the arrays before it compacts them
update_shrinkFirst(S) ==
    IF S.elementCount = 0
    THEN IF S.mesh.exists THEN [S EXCEPT !.mesh.visible = FALSE] ELSE S
    ELSE LET arranged ==
                 IF S.elementCount > S.bufferElementSize
                 THEN updateSortedBucketsAllocation(resize(S))
                 ELSE IF 3 * S.elementCount <= S.bufferElementSize
                      THEN updateSortedBucketsAllocation(resize(S))
                      ELSE updateSortedBucketsAllocation(S)
         IN  [arranged EXCEPT !.mesh = [exists |-> arranged.mesh.exists,
                                        count |-> S.elementCount,
                                        visible |-> TRUE]]

\* update that leaves the mesh of an empty group visible
update_staysVisible(S) ==
    IF S.elementCount = 0
    THEN S
    ELSE LET arranged ==
                 IF S.elementCount > S.bufferElementSize
                 THEN updateSortedBucketsAllocation(resize(S))
                 ELSE IF 3 * S.elementCount <= S.bufferElementSize
                      THEN resize(updateSortedBucketsAllocation(S))
                      ELSE updateSortedBucketsAllocation(S)
         IN  [arranged EXCEPT !.mesh = [exists |-> arranged.mesh.exists,
                                        count |-> S.elementCount,
                                        visible |-> TRUE]]

\* update that never gives capacity back
update_neverShrinks(S) ==
    IF S.elementCount = 0
    THEN IF S.mesh.exists THEN [S EXCEPT !.mesh.visible = FALSE] ELSE S
    ELSE LET arranged ==
                 IF S.elementCount > S.bufferElementSize
                 THEN updateSortedBucketsAllocation(resize(S))
                 ELSE updateSortedBucketsAllocation(S)
         IN  [arranged EXCEPT !.mesh = [exists |-> arranged.mesh.exists,
                                        count |-> S.elementCount,
                                        visible |-> TRUE]]

\* update that shrinks only below a third of the capacity
update_belowThird(S) ==
    IF S.elementCount = 0
    THEN IF S.mesh.exists THEN [S EXCEPT !.mesh.visible = FALSE] ELSE S
    ELSE LET arranged ==
                 IF S.elementCount > S.bufferElementSize
                 THEN updateSortedBucketsAllocation(resize(S))
                 ELSE IF 3 * S.elementCount < S.bufferElementSize
                      THEN resize(updateSortedBucketsAllocation(S))
                      ELSE updateSortedBucketsAllocation(S)
         IN  [arranged EXCEPT !.mesh = [exists |-> arranged.mesh.exists,
                                        count |-> S.elementCount,
                                        visible |-> TRUE]]

update(S) ==
    IF S.elementCount = 0
    THEN IF S.mesh.exists THEN [S EXCEPT !.mesh.visible = FALSE] ELSE S
    ELSE LET arranged ==
                 IF S.elementCount > S.bufferElementSize
                 THEN updateSortedBucketsAllocation(resize(S))
                 ELSE IF 3 * S.elementCount <= S.bufferElementSize
                      THEN resize(updateSortedBucketsAllocation(S))
                      ELSE updateSortedBucketsAllocation(S)
         IN  [arranged EXCEPT !.mesh = [exists |-> arranged.mesh.exists,
                                        count |-> S.elementCount,
                                        visible |-> TRUE]]

\* onFrame that leaves the request standing
onFrame_keepsRequest(S) ==
    IF S.nextUpdateTime # nextFrame
    THEN S
    ELSE [update(S) EXCEPT !.ranUpdate = TRUE]

onFrame(S) ==
    IF S.nextUpdateTime # nextFrame
    THEN S
    ELSE [update([S EXCEPT !.nextUpdateTime = Undefined]) EXCEPT !.ranUpdate = TRUE]

\* -------------------------------------------------------------- behaviour
\* The arrays as the next call finds them: an entry is zeroed, the data of the panel
\* whose slot it is, or left-over data (whose it was makes no difference afterwards).
Settled(S) ==
    [s \in DOMAIN S.instanceData |->
        LET v == S.instanceData[s]
        IN  IF v = 0 THEN 0
            ELSE IF v \in Elems /\ IsLive(S.buckets, v) /\ S.slot[v] = s THEN v
            ELSE Stale]

Becomes(S) ==
    /\ buckets' = S.buckets
    /\ slot' = S.slot
    /\ indexInBucket' = S.indexInBucket
    /\ instanceData' = Settled(S)
    /\ elementCount' = S.elementCount
    /\ bufferElementSize' = S.bufferElementSize
    /\ nextUpdateTime' = S.nextUpdateTime
    /\ nextUpdateTimeoutRef' = S.nextUpdateTimeoutRef
    /\ timers' = S.timers
    /\ mesh' = S.mesh

\* what the call did, and what it found: whether a timeout was pending before an
\* insert, the capacity and the slots of the panels before an update
Called(op, S, servedDeletes) ==
    [op |-> op, needsRearrange |-> S.needsRearrange, ranUpdate |-> S.ranUpdate,
     threw |-> S.threw, log |-> S.log, served |-> servedDeletes,
     timerBefore |-> op = "insert" /\ timers # {},
     sizeBefore |-> IF S.ranUpdate THEN bufferElementSize ELSE 0,
     slotBefore |-> IF S.ranUpdate THEN slot ELSE [e \in Elems |-> NoIndex]]

\* the group after its constructor
Constructed ==
    /\ buckets = <<>>
    /\ slot = [e \in Elems |-> NoIndex]
    /\ indexInBucket = [e \in Elems |-> NoIndex]
    /\ instanceData = [s \in {} |-> 0]
    /\ elementCount = 0
    /\ bufferElementSize = 0
    /\ nextUpdateTime = Undefined
    /\ nextUpdateTimeoutRef = NoTimeout
    /\ timers = {}
    /\ mesh = [exists |-> FALSE, count |-> 0, visible |-> FALSE]
    /\ disposed = [destroyed |-> FALSE, mesh |-> FALSE, detached |-> FALSE,
                   material |-> FALSE]
    /\ unserved = 0
    /\ last = [op |-> "new", needsRearrange |-> FALSE, ranUpdate |-> FALSE,
               threw |-> FALSE, log |-> <<>>, served |-> 0,
               sizeBefore |-> 0, timerBefore |-> FALSE,
               slotBefore |-> [e \in Elems |-> NoIndex]]

\* new PanelGroupManager(...): an empty map; the initializers are pushed, not run
NewManager ==
    /\ map = [at \in {} |-> 0]
    /\ onFrameSet = FALSE
    /\ subscriptions = "none"
    /\ constructions = 0
    /\ ticked = {}

\* bounds of the deferred layout request
MaxFlexNodes == 2
MaxCalculations == 2

FlexNodes == 1..MaxFlexNodes

\* requestedNode: undefined
NoNode == 0

\* createDeferredRequestLayoutCalculation has run: nothing is requested, its onFrame is
\* in root.onFrameSet
NewRoot ==
    /\ requestedNode = NoNode
    /\ calculating = NoNode
    /\ layoutSubscribed = TRUE
    /\ calculations = [node \in FlexNodes |-> 0]
    /\ lastLayout = [op |-> "new", node |-> NoNode, yogaNode |-> FALSE, ran |-> NoNode]

\* no html has been handed to the conversion
NoDocument ==
    /\ document = <<>>
    /\ converted = [done |-> FALSE, result |-> <<>>]

Init ==
    /\ Constructed
    /\ NewManager
    /\ renderOrder = 0
    /\ depthTest = TRUE
    /\ NoDocument
    /\ NewRoot

\* A new panel is inserted at a bucket index.  Panels are fresh objects: the new one
\* takes the least identity that no panel of the group has.
Insert ==
    \E panel \in Elems, bucketIndex \in BucketIndices :
        /\ ~disposed.destroyed
        /\ ~IsLive(buckets, panel)
        /\ \A other \in Elems : other < panel => IsLive(buckets, other)
        /\ LET S == insert(State, bucketIndex, panel)
           IN  /\ Becomes(S)
               /\ last' = Called("insert", S, 0)
        /\ UNCHANGED <<disposed, unserved, managerVars, convertVars, layoutVars>>

\* a panel of the group is deleted, with the bucket index and the index it was told
Delete ==
    \E panel \in Elems :
        /\ ~disposed.destroyed
        /\ IsLive(buckets, panel)
        /\ LET bucketIndex == buckets[BucketOf(buckets, panel)].bucketIndex
               S == delete(State, bucketIndex, indexInBucket[panel], panel)
           IN  /\ Becomes(S)
               /\ last' = Called("delete", S, 0)
               /\ unserved' = IF S.needsRearrange /\ unserved < 2 THEN unserved + 1 ELSE unserved
        /\ UNCHANGED <<disposed, managerVars, convertVars, layoutVars>>

\* the host's render loop calls onFrame once per frame
OnFrame ==
    /\ ~disposed.destroyed
    /\ LET S == onFrame(State)
       IN  /\ Becomes(S)
           /\ last' = Called("onFrame", S, IF S.ranUpdate THEN unserved ELSE 0)
           /\ unserved' = IF S.ranUpdate THEN 0 ELSE unserved
    /\ UNCHANGED <<disposed, managerVars, convertVars, layoutVars>>

\* a timeout whose time has come runs its callback, requestUpdateNextFrame
TimerFires ==
    \E t \in timers :
        /\ t = 0
        /\ LET S == requestUpdateNextFrame([State EXCEPT !.timers = timers \ {t}])
           IN  /\ Becomes(S)
               /\ last' = Called("timeout", S, 0)
        /\ UNCHANGED <<disposed, unserved, managerVars, convertVars, layoutVars>>

Later(t) == IF t > TimeStep THEN t - TimeStep ELSE 0

\* time passes
AdvanceTime ==
    /\ timers' = {Later(t) : t \in timers}
    /\ nextUpdateTime' = IF nextUpdateTime.kind = "time"
                         THEN AtTime(Later(nextUpdateTime.at))
                         ELSE nextUpdateTime
    /\ nextUpdateTimeoutRef' = IF nextUpdateTimeoutRef.set
                               THEN Timeout(Later(nextUpdateTimeoutRef.at))
                               ELSE nextUpdateTimeoutRef
    /\ last' = Called("time", State, 0)
    /\ UNCHANGED <<buckets, slot, indexInBucket, instanceData, elementCount,
                   bufferElementSize, mesh, disposed, unserved, managerVars, convertVars,
                   layoutVars>>

\* destroy that leaves the timeout running
destroy_keepsTimeout(S) == S

destroy(S) == clearTimeout(S)

\* what destroy() releases: without a mesh it returns after clearTimeout; with a mesh
\* it detaches and disposes the mesh and disposes the instance material
released(S) ==
    IF ~S.mesh.exists
    THEN [destroyed |-> TRUE, mesh |-> FALSE, detached |-> FALSE, material |-> FALSE]
    ELSE [destroyed |-> TRUE, mesh |-> TRUE, detached |-> TRUE, material |-> TRUE]

Destroy ==
    /\ ~disposed.destroyed
    /\ LET S == destroy(State)
       IN  /\ Becomes(S)
           /\ last' = Called("destroy", S, 0)
           /\ disposed' = released(S)
    /\ UNCHANGED <<unserved, managerVars, convertVars, layoutVars>>

Next == Insert \/ Delete \/ OnFrame \/ TimerFires \/ AdvanceTime \/ Destroy

Spec == Init /\ [][Next]_vars

\* ------------------------------------------------------------ type check
TypeOK ==
    /\ elementCount \in 0..MaxElems
    /\ bufferElementSize \in 0..newBufferElementSize(MaxElems)
    /\ DOMAIN instanceData = 0..(bufferElementSize - 1)
    /\ \A s \in DOMAIN instanceData : instanceData[s] \in Elems \cup {0, Stale}
    /\ nextUpdateTime.kind \in {"undefined", "nextFrame", "time"}
    /\ \A k \in 1..Len(buckets) : buckets[k].elements # <<>>

\* ------------------------------------------------------------ properties
Live == {e \in Elems : IsLive(buckets, e)}

Activated(e) == indexInBucket[e] # NoIndex

BucketIndexOf(e) == buckets[BucketOf(buckets, e)].bucketIndex

\* the slot a panel writes to: bucket.offset + indexInBucket
SlotOf(e) == buckets[BucketOf(buckets, e)].offset + indexInBucket[e]

TotalSize == SizeOfPrefix(buckets, Len(buckets))

Contiguous ==
    \A k \in 1..(Len(buckets) - 1) :
        buckets[k + 1].offset = buckets[k].offset + Len(buckets[k].elements)

NoSlotBeyondTotal ==
    \A e \in Live : Activated(e) => SlotOf(e) < TotalSize

Idle == nextUpdateTime = Undefined

Resizes(log) == Cardinality({i \in 1..Len(log) : log[i] = "resize"})

\* C1 as stated: in every reachable state, also between a slow-path insert or delete
\* and the next rearrangement, adjacent buckets are contiguous and no occupied slot
\* lies at or beyond the sum of the bucket sizes.
C1_ContiguousInEveryState == Contiguous /\ NoSlotBeyondTotal

\* C1 amended: whenever no update is pending (no next-frame request, no delayed
\* request), adjacent buckets are contiguous and no occupied slot lies at or beyond
\* the sum of the bucket sizes.
C1_ContiguousWhenIdle == Idle => Contiguous /\ NoSlotBeyondTotal

C1_Witness ==
    /\ Idle
    /\ last.ranUpdate
    /\ "rearrange" \in {last.log[i] : i \in 1..Len(last.log)}
    /\ Len(buckets) >= 2

\* C2: no two live, activated panels have the same slot bucket.offset + indexInBucket.
C2_SlotExclusive ==
    \A e1, e2 \in Live :
        e1 # e2 /\ Activated(e1) /\ Activated(e2) => SlotOf(e1) # SlotOf(e2)

C2_Witness ==
    /\ \E e1, e2 \in Live :
          /\ e1 # e2 /\ Activated(e1) /\ Activated(e2)
          /\ BucketIndexOf(e1) = BucketIndexOf(e2)
    /\ nextUpdateTime.kind = "time"

\* C3 as stated: in every reachable state elementCount <= bufferElementSize.
C3_CountWithinCapacityAlways == elementCount <= bufferElementSize

\* C3 amended: in every reachable state in which no next-frame update is requested,
\* elementCount <= bufferElementSize.
C3_CountWithinCapacity == nextUpdateTime # nextFrame => elementCount <= bufferElementSize

C3_Witness ==
    /\ nextUpdateTime # nextFrame
    /\ elementCount > 0
    /\ elementCount = bufferElementSize

\* C4: when no rearrangement is pending, every live panel is placed, and a panel of a
\* bucket with a smaller index has a smaller slot than a panel of a bucket with a
\* greater index.
C4_CrossBucketOrder ==
    Idle =>
        /\ \A e \in Live : Activated(e)
        /\ \A e1, e2 \in Live :
              BucketIndexOf(e1) < BucketIndexOf(e2) => SlotOf(e1) < SlotOf(e2)

\* the panel of the smaller bucket index was inserted when the other was in place, and
\* the rearrangement gave it the slot the other had
C4_Witness ==
    /\ Idle
    /\ last.ranUpdate
    /\ \E e1, e2 \in Live :
          /\ BucketIndexOf(e1) < BucketIndexOf(e2)
          /\ last.slotBefore[e1] = NoIndex
          /\ last.slotBefore[e2] = SlotOf(e1)

\* C5 as stated, with a reallocation slack of one slot and for n > 0 alone: after
\* every update() that completes with n > 0, n <= capacity <= ceil(1.5 n) + 1.
C5_CapacityNearOneAndAHalf ==
    last.ranUpdate /\ elementCount > 0 =>
        /\ bufferElementSize >= elementCount
        /\ bufferElementSize <= CeilOneAndAHalf(elementCount) + 1

\* C5 amended: after every update() that completes with n > 0 live panels,
\* n <= capacity and capacity < 3 n; an update() with n = 0 leaves the capacity alone.
C5_CapacityWithinThreeTimes ==
    /\ last.ranUpdate /\ elementCount > 0 =>
          /\ bufferElementSize >= elementCount
          /\ bufferElementSize < 3 * elementCount
    /\ last.ranUpdate /\ elementCount = 0 => bufferElementSize = last.sizeBefore

C5_Witness ==
    /\ last.ranUpdate
    /\ elementCount > 0
    /\ bufferElementSize > CeilOneAndAHalf(elementCount) + 1

\* C6: one update() reallocates at most once, and an update() that follows an
\* update() with no insert or delete in between does not reallocate.
C6_NoFlapping ==
    last.ranUpdate =>
        /\ Resizes(last.log) <= 1
        /\ Resizes(update(State).log) = 0
        /\ update(State).bufferElementSize = bufferElementSize

C6_Witness ==
    /\ last.ranUpdate
    /\ Resizes(last.log) = 1
    /\ last.sizeBefore > bufferElementSize

\* C7: an update() that grows resizes and then rearranges; an update() that shrinks
\* rearranges and then resizes; no update() does anything else with the two steps.
C7_AsymmetricOrder ==
    last.ranUpdate =>
        /\ elementCount > last.sizeBefore => last.log = <<"resize", "rearrange">>
        /\ elementCount > 0 /\ 3 * elementCount <= last.sizeBefore =>
              last.log = <<"rearrange", "resize">>
        /\ last.log \in {<<>>, <<"rearrange">>, <<"resize", "rearrange">>,
                         <<"rearrange", "resize">>}
        /\ last.log = <<"resize", "rearrange">> => bufferElementSize > last.sizeBefore
        /\ last.log = <<"rearrange", "resize">> => bufferElementSize < last.sizeBefore

C7_Witness ==
    /\ last.ranUpdate
    /\ last.log = <<"rearrange", "resize">>
    /\ elementCount > 0

\* C8: after any update() every live panel has a slot below the capacity and the slot
\* holds the panel's own data; and a grow keeps what the arrays held at the same slots.
C8_NoElementLost ==
    /\ last.ranUpdate =>
          \A e \in Live :
              /\ Activated(e)
              /\ SlotOf(e) < bufferElementSize
              /\ instanceData[SlotOf(e)] = e
    /\ elementCount > bufferElementSize =>
          \A s \in DOMAIN instanceData : resize(State).instanceData[s] = instanceData[s]

\* a shrink that cut off the region in which a live panel had its slot
C8_Witness ==
    /\ last.ranUpdate
    /\ last.log = <<"rearrange", "resize">>
    /\ \E e \in Live : last.slotBefore[e] >= bufferElementSize

\* C9: all the slow-path deletes that wait for the delayed update are served by one
\* update(): while they wait exactly one request is pending (one timeout, or the
\* next-frame request), and the update() that serves them leaves none.
C9_OnePassForAllDeletes ==
    /\ unserved > 0 /\ ~disposed.destroyed =>
          \/ nextUpdateTime = nextFrame /\ timers = {}
          \/ nextUpdateTime.kind = "time" /\ Cardinality(timers) = 1
    /\ last.ranUpdate =>
          unserved = 0 /\ nextUpdateTime = Undefined /\ timers = {}

C9_Witness ==
    /\ last.ranUpdate
    /\ last.served >= 2
    /\ last.log # <<>>

Unplaced == {e \in Live : ~Activated(e)}

\* the slot of a panel in the state a call returns
SlotIn(S, e) == S.buckets[BucketOf(S.buckets, e)].offset + S.indexInBucket[e]

\* C11: an insert for which the allocator asks for a rearrangement requests the update
\* for the next frame; as long as a live panel waits for its slot that request stands;
\* and the next onFrame() runs update(), after which every live panel (the inserted one
\* among them) is activated at a slot below the capacity and below the draw count of a
\* visible mesh, and the slot holds the panel's data.
C11_PromptInsert ==
    /\ last.op = "insert" /\ last.needsRearrange =>
          nextUpdateTime = nextFrame /\ Unplaced # {}
    /\ Unplaced # {} => nextUpdateTime = nextFrame
    /\ nextUpdateTime = nextFrame =>
          LET S == onFrame(State)
          IN  /\ S.ranUpdate
              /\ \A e \in Live :
                    /\ S.indexInBucket[e] # NoIndex
                    /\ SlotIn(S, e) < S.bufferElementSize
                    /\ SlotIn(S, e) < S.mesh.count
                    /\ S.mesh.exists /\ S.mesh.visible
                    /\ S.instanceData[SlotIn(S, e)] = e

\* the tick after a slow-path insert has given the waiting panel its slot
C11_Witness ==
    /\ last.op = "onFrame"
    /\ last.ranUpdate
    /\ \E e \in Live :
          /\ last.slotBefore[e] = NoIndex
          /\ Activated(e)
          /\ SlotOf(e) < mesh.count

\* the state a call returns, as the next call finds it
Returned(S) == [S EXCEPT !.needsRearrange = FALSE, !.ranUpdate = FALSE,
                         !.threw = FALSE, !.log = <<>>]

\* a live panel whose removal leaves a hole: not the last panel of the last bucket
LeavesHole(e) ==
    LET k == BucketOf(buckets, e)
    IN  ~(k = Len(buckets) /\ IndexOf(buckets[k].elements, e) = Len(buckets[k].elements))

\* C12: a slow-path delete with no update pending starts one timeout of 1000 ms and
\* requests nothing for the next frame; while the delayed request stands, its timeout is
\* the only one and onFrame() changes nothing; the request becomes a next-frame request
\* only by the timeout's callback or by an insert; and when the timeout has fired, the
\* next onFrame() runs update(), and the onFrame() after that does not.
C12_DelayedCompaction ==
    /\ [](/\ \A e \in Live :
                (nextUpdateTime = Undefined /\ LeavesHole(e)) =>
                    LET S == delete(State, BucketIndexOf(e), indexInBucket[e], e)
                    IN  /\ S.needsRearrange
                        /\ S.nextUpdateTime = AtTime(DeleteDelay)
                        /\ S.timers = {DeleteDelay}
                        /\ onFrame(Returned(S)) = Returned(S)
          /\ nextUpdateTime.kind = "time" /\ ~disposed.destroyed =>
                /\ timers = {nextUpdateTime.at}
                /\ nextUpdateTime.at <= DeleteDelay
                /\ onFrame(State) = State
          /\ last.op = "timeout" =>
                LET S1 == onFrame(State)
                    S2 == onFrame(Returned(S1))
                IN  /\ nextUpdateTime = nextFrame
                    /\ timers = {}
                    /\ S1.ranUpdate
                    /\ S1.nextUpdateTime = Undefined /\ S1.timers = {}
                    /\ ~S2.ranUpdate)
    /\ [][nextUpdateTime.kind = "time" /\ nextUpdateTime' = nextFrame =>
              last'.op \in {"timeout", "insert"}]_vars

\* the timeout of a slow-path delete has fired, the delete still waits for the tick
C12_Witness ==
    /\ last.op = "timeout"
    /\ unserved >= 1
    /\ nextUpdateTime = nextFrame
    /\ elementCount > 0

Rearranges(log) == Cardinality({i \in 1..Len(log) : log[i] = "rearrange"})

\* C13: with a next-frame request pending, onFrame() clears the request and runs
\* update() once (one rearrangement at most), and the onFrame() after it changes
\* nothing; with no next-frame request pending (idle, or a timeout pending) onFrame()
\* changes nothing; and requests merge: a request repeated, or a delayed request added
\* to a next-frame request, leaves the one request that was there, and a next-frame
\* request added to a delayed request replaces it.
C13_TickCoalescing ==
    /\ nextUpdateTime = nextFrame =>
          LET S1 == onFrame(State)
          IN  /\ S1.ranUpdate
              /\ S1.nextUpdateTime = Undefined
              /\ Rearranges(S1.log) <= 1
              /\ onFrame(Returned(S1)) = Returned(S1)
    /\ nextUpdateTime # nextFrame => onFrame(State) = State
    /\ last.ranUpdate => nextUpdateTime = Undefined /\ Rearranges(last.log) <= 1
    /\ LET R == requestUpdateNextFrame(State)
           D == requestUpdate(State, DeleteDelay)
       IN  /\ R.nextUpdateTime = nextFrame /\ R.timers = {}
           /\ requestUpdateNextFrame(R) = R
           /\ requestUpdate(R, DeleteDelay) = R
           /\ requestUpdate(D, DeleteDelay) = D
           /\ ~disposed.destroyed => requestUpdateNextFrame(D) = R

\* one update() has served a slow-path delete and a slow-path insert
C13_Witness ==
    /\ last.op = "onFrame"
    /\ last.ranUpdate
    /\ last.served >= 1
    /\ Rearranges(last.log) = 1
    /\ \E e \in Live : last.slotBefore[e] = NoIndex

\* the three scheduling states
SchedulingIdle == nextUpdateTime = Undefined /\ timers = {}
SchedulingDelayed == nextUpdateTime.kind = "time" /\ Cardinality(timers) = 1
SchedulingNextTick == nextUpdateTime = nextFrame /\ timers = {}

FreshPanels ==
    {p \in Elems : ~IsLive(buckets, p) /\ \A other \in Elems : other < p => IsLive(buckets, other)}

\* the bucket indices at which an insert makes the new last panel of the last bucket
LastBucketIndices ==
    {b \in BucketIndices : buckets = <<>> \/ b >= buckets[Len(buckets)].bucketIndex}

\* C15 as stated: in every reachable state an insert as the new last panel of the last
\* bucket (or into a new bucket behind all others) needs no rearrangement and requests
\* no update.
C15_LastInsertNeverRearranges ==
    \A p \in FreshPanels, b \in LastBucketIndices :
        LET S == insert(State, b, p)
        IN  /\ ~S.needsRearrange
            /\ S.nextUpdateTime = nextUpdateTime
            /\ S.timers = timers

\* C15 amended: in every reachable state with no update pending and a live count below
\* the capacity, an insert as the new last panel of the last bucket (or into a new
\* bucket behind all others) needs no rearrangement and requests no update: the panel
\* is activated at the slot behind all others and the draw count covers it.  With no
\* update pending and the live count at the capacity (a new group included), the same
\* insert needs a rearrangement and requests the update for the next frame.
C15_LastInsertWithRoom ==
    \A p \in FreshPanels, b \in LastBucketIndices :
        LET S == insert(State, b, p)
        IN  /\ (Idle /\ elementCount < bufferElementSize) =>
                  /\ ~S.needsRearrange
                  /\ S.nextUpdateTime = nextUpdateTime
                  /\ S.timers = timers
                  /\ S.indexInBucket[p] # NoIndex
                  /\ SlotIn(S, p) = elementCount
                  /\ S.instanceData[elementCount] = p
                  /\ S.mesh.count = elementCount + 1
            /\ (Idle /\ elementCount >= bufferElementSize) =>
                  /\ S.needsRearrange
                  /\ S.indexInBucket[p] = NoIndex
                  /\ S.nextUpdateTime = nextFrame
                  /\ S.timers = {}

\* a fast-path insert has put a panel behind the panels of two buckets
C15_Witness ==
    /\ last.op = "insert"
    /\ ~last.needsRearrange
    /\ Len(buckets) = 2
    /\ elementCount = MaxElems
    /\ Idle

\* C16: in every reachable state, deleting the last panel of the last bucket needs no
\* rearrangement: the allocator returns false, the panel's slot (if it had one) is
\* zeroed in place, the live count drops by one, and timeout, request and capacity are
\* left as they were.
C16_LastRemoveInPlace ==
    \A e \in Live :
        ~LeavesHole(e) =>
            LET S == delete(State, BucketIndexOf(e), indexInBucket[e], e)
            IN  /\ ~S.needsRearrange
                /\ Activated(e) => S.instanceData[SlotOf(e)] = 0
                /\ S.elementCount = elementCount - 1
                /\ ~IsLive(S.buckets, e)
                /\ S.nextUpdateTime = nextUpdateTime
                /\ S.nextUpdateTimeoutRef = nextUpdateTimeoutRef
                /\ S.timers = timers
                /\ S.bufferElementSize = bufferElementSize

\* a fast-path delete has zeroed the slot behind the panels that remain
C16_Witness ==
    /\ last.op = "delete"
    /\ ~last.needsRearrange
    /\ ~last.threw
    /\ Idle
    /\ elementCount > 0
    /\ elementCount < bufferElementSize
    /\ instanceData[elementCount] = 0

\* -------------------------------------------------------------- scenarios
\* a group as its constructor leaves it
NewGroup ==
    [buckets |-> <<>>, slot |-> [e \in Elems |-> NoIndex],
     indexInBucket |-> [e \in Elems |-> NoIndex],
     instanceData |-> [s \in {} |-> 0], elementCount |-> 0,
     bufferElementSize |-> 0, nextUpdateTime |-> Undefined,
     nextUpdateTimeoutRef |-> NoTimeout, timers |-> {},
     mesh |-> [exists |-> FALSE, count |-> 0, visible |-> FALSE],
     needsRearrange |-> FALSE, ranUpdate |-> FALSE, threw |-> FALSE, log |-> <<>>]

\* the panels 1..k inserted, one after the other, at one bucket index of a new group
RECURSIVE InsertedInto(_, _)
InsertedInto(k, bucketIndex) ==
    IF k = 0 THEN NewGroup
    ELSE Returned(insert(InsertedInto(k - 1, bucketIndex), bucketIndex, k))

\* ... and one onFrame() after that
Grown(k, bucketIndex) == onFrame(InsertedInto(k, bucketIndex))

\* what the scenario expects of k inserts at one bucket index and one onFrame()
GrownAsExpected ==
    \A k \in 1..MaxElems, b \in BucketIndices :
        LET S == Grown(k, b)
        IN  /\ S.ranUpdate
            /\ S.bufferElementSize = CeilOneAndAHalf(k)
            /\ DOMAIN S.instanceData = 0..(CeilOneAndAHalf(k) - 1)
            /\ Len(S.buckets) = 1
            /\ \A e \in 1..k : SlotIn(S, e) = e - 1 /\ S.instanceData[e - 1] = e
            /\ S.mesh.exists /\ S.mesh.visible /\ S.mesh.count = k

\* C17: k >= 1 inserts into one bucket of a new group and one onFrame() give the
\* capacity ceil(1.5 k) (2, 3, 5 for k = 1, 2, 3; 15 for k = 10), the panels at the
\* slots 0..k-1 and the draw count k; and in every reachable state, the first update()
\* of a group (capacity 0 before it) with n > 0 live panels resizes, then rearranges,
\* and leaves capacity ceil(1.5 n), the panels at the slots 0..n-1 and draw count n.
C17_GrowthScenario ==
    /\ <<CeilOneAndAHalf(1), CeilOneAndAHalf(2), CeilOneAndAHalf(3), CeilOneAndAHalf(10)>>
           = <<2, 3, 5, 15>>
    /\ newBufferElementSize(10) = 15
    /\ GrownAsExpected
    /\ (last.ranUpdate /\ last.sizeBefore = 0 /\ elementCount > 0) =>
          /\ last.log = <<"resize", "rearrange">>
          /\ bufferElementSize = CeilOneAndAHalf(elementCount)
          /\ {SlotOf(e) : e \in Live} = 0..(elementCount - 1)
          /\ mesh.exists /\ mesh.visible /\ mesh.count = elementCount

\* the group is in the state of the scenario for the greatest k
C17_Witness ==
    /\ last.op = "onFrame"
    /\ last.ranUpdate
    /\ last.sizeBefore = 0
    /\ \E b \in BucketIndices :
          LET S == Grown(MaxElems, b)
          IN  /\ buckets = S.buckets
              /\ indexInBucket = S.indexInBucket
              /\ instanceData = S.instanceData
              /\ bufferElementSize = S.bufferElementSize
              /\ mesh = S.mesh

\* C18 as stated, for any number of panels: whichever panels were deleted and in
\* whichever order, a group whose live count n > 0 is a third of the capacity or less
\* has an update on its way (which will compact and shrink).
C18_DeletesAlwaysShrink ==
    (~disposed.destroyed /\ elementCount > 0 /\ 3 * elementCount <= bufferElementSize) =>
        nextUpdateTime # Undefined

\* C18 amended: when at least one of the deletes left a hole, an update is on its way,
\* and with n > 0 at a third of the capacity or less that update rearranges, then
\* shrinks the capacity to ceil(1.5 n) (3 for n = 2, which is a third of 15 or less),
\* with draw count n and the panels at the slots 0..n-1, and so does every update()
\* that has run in such a state.  Deletes that each removed the last panel of the last
\* bucket request nothing: the capacity stays.
C18_SlowDeletesShrink ==
    /\ newBufferElementSize(2) = 3 /\ 3 * 2 <= newBufferElementSize(10)
    /\ (~disposed.destroyed /\ unserved > 0) => nextUpdateTime # Undefined
    /\ (unserved > 0 /\ elementCount > 0 /\ 3 * elementCount <= bufferElementSize) =>
          LET S == update(State)
          IN  /\ S.log = <<"rearrange", "resize">>
              /\ S.bufferElementSize = CeilOneAndAHalf(elementCount)
              /\ S.mesh.count = elementCount /\ S.mesh.visible
              /\ {SlotIn(S, e) : e \in Live} = 0..(elementCount - 1)
    /\ (last.ranUpdate /\ elementCount > 0 /\ 3 * elementCount <= last.sizeBefore) =>
          /\ last.log = <<"rearrange", "resize">>
          /\ bufferElementSize = CeilOneAndAHalf(elementCount)
          /\ mesh.count = elementCount /\ mesh.visible
          /\ {SlotOf(e) : e \in Live} = 0..(elementCount - 1)
    /\ (last.op = "delete" /\ ~last.needsRearrange /\ unserved = 0
           /\ nextUpdateTime # nextFrame) =>
          nextUpdateTime = Undefined /\ timers = {}

\* the delayed update has served the deletes that left one panel of the greatest
\* number in one bucket, and has shrunk the arrays
C18_Witness ==
    /\ last.op = "onFrame"
    /\ last.ranUpdate
    /\ last.served >= 1
    /\ last.sizeBefore = CeilOneAndAHalf(MaxElems)
    /\ elementCount = 1
    /\ bufferElementSize = CeilOneAndAHalf(1)
    /\ mesh.count = 1

\* a pending update run to its end: the timeout's callback if the request is delayed,
\* then the tick
Finished(S) ==
    IF S.nextUpdateTime = Undefined THEN S
    ELSE onFrame(Returned(requestUpdateNextFrame(S)))

\* panel e deleted and inserted again at its bucket index
RoundTrip(e) ==
    LET bucketIndex == BucketIndexOf(e)
        deleted == Returned(delete(State, bucketIndex, indexInBucket[e], e))
        inserted == Returned(insert(deleted, bucketIndex, e))
    IN  Finished(inserted)

C20_DrawStateAfterUpdate ==
    /\ (last.ranUpdate /\ elementCount > 0) =>
          mesh.exists /\ mesh.visible /\ mesh.count = elementCount
    /\ (last.ranUpdate /\ elementCount = 0) =>
          /\ ~mesh.visible
          /\ last.log = <<>>
          /\ bufferElementSize = last.sizeBefore
    /\ LET S == update(State)
       IN  /\ elementCount > 0 =>
                 S.mesh.exists /\ S.mesh.visible /\ S.mesh.count = elementCount
           /\ elementCount = 0 =>
                 /\ S.mesh.exists = mesh.exists
                 /\ ~S.mesh.visible
                 /\ S.log = <<>>
                 /\ S.bufferElementSize = bufferElementSize
                 /\ S.instanceData = instanceData
                 /\ S.buckets = buckets

\* the delayed update has run for a group whose last panels were deleted: the mesh
\* that showed them is hidden
C20_Witness ==
    /\ last.op = "onFrame"
    /\ last.ranUpdate
    /\ last.served >= 1
    /\ elementCount = 0
    /\ mesh.exists
    /\ ~mesh.visible
    /\ bufferElementSize > 0

\* ------------------------------------------------------------------- C21
\* the slots from elementCount up to the capacity
UnusedSlots(S) == {s \in DOMAIN S.instanceData : s >= S.elementCount}

\* C21 as stated: in every reachable state every slot at or above elementCount and
\* below the capacity is unused and holds a zeroed transform.
C21_ZeroedTail ==
    \A s \in UnusedSlots(State) :
        /\ instanceData[s] = 0
        /\ \A e \in Live : slot[e] # s

\* C21: what update() leaves in the tail.  After an update() with n > 0 live panels,
\* the slots below n hold the live panels' data, no slot at or above n is the slot of
\* a panel and none of them is drawn (the draw count is n), and every slot at or above
\* n that a grow has added to the arrays is zeroed.  The slots a compaction copy moved
\* panels out of and the prefix that resize() copies keep the data they had.
C21_TailAfterUpdate ==
    (nextUpdateTime = nextFrame /\ elementCount > 0) =>
        LET S == onFrame(State)
            data == Settled(S)
        IN  /\ \A e \in Elems : IsLive(S.buckets, e) =>
                  /\ S.slot[e] \in 0..(S.elementCount - 1)
                  /\ data[S.slot[e]] = e
            /\ \A s \in UnusedSlots(S) :
                  /\ data[s] \in {0, Stale}
                  /\ s >= S.mesh.count
                  /\ s >= bufferElementSize => data[s] = 0

\* an update is due whose compaction moves a panel down and leaves the panel's old
\* data in a slot of the tail
C21_Witness ==
    /\ nextUpdateTime = nextFrame
    /\ elementCount > 0
    /\ unserved >= 1
    /\ LET S == onFrame(State)
       IN  \E s \in UnusedSlots(S) : Settled(S)[s] = Stale

\* ------------------------------------------------------------------- C22
\* the sizes of the buckets of a bucket list, by bucket index (0: no bucket)
BucketSizes(bs) ==
    [b \in BucketIndices |->
        IF BucketPos(bs, b) = 0 THEN 0 ELSE Len(bs[BucketPos(bs, b)].elements)]

HasBucket(bs, b) == BucketPos(bs, b) > 0

\* C22: a bucket exists for a bucket index exactly while a panel is in it.  No
\* reachable state has an empty bucket or two buckets of one index; an insert at an
\* index without a bucket creates the bucket with the new panel as its only element;
\* a delete of the only panel of a bucket removes the bucket, a delete of one of
\* several keeps it; neither creates or removes the bucket of another index.
C22_BucketLifecycle ==
    /\ \A k \in 1..Len(buckets) : buckets[k].elements # <<>>
    /\ \A j, k \in 1..Len(buckets) :
          j < k => buckets[j].bucketIndex < buckets[k].bucketIndex
    /\ \A b \in BucketIndices : HasBucket(buckets, b) <=> \E e \in Live : BucketIndexOf(e) = b
    /\ \A b \in BucketIndices, p \in FreshPanels :
          LET S == insert(State, b, p)
          IN  /\ HasBucket(S.buckets, b)
              /\ BucketSizes(S.buckets) =
                     [BucketSizes(buckets) EXCEPT ![b] = @ + 1]
              /\ IndexOf(S.buckets[BucketPos(S.buckets, b)].elements, p) > 0
    /\ \A e \in Live :
          LET b == BucketIndexOf(e)
              S == delete(State, b, indexInBucket[e], e)
          IN  /\ BucketSizes(S.buckets) =
                     [BucketSizes(buckets) EXCEPT ![b] = @ - 1]
              /\ HasBucket(S.buckets, b) <=> BucketSizes(buckets)[b] > 1
              /\ \A k \in 1..Len(S.buckets) : S.buckets[k].elements # <<>>

\* the only panel of a bucket has been deleted while the other bucket keeps its
\* panels: the bucket list holds the other bucket alone
C22_Witness ==
    /\ last.op = "delete"
    /\ Len(buckets) = 1
    /\ buckets[1].bucketIndex = MaxBucketIndex
    /\ Len(buckets[1].elements) = 2
    /\ last.needsRearrange

\* ------------------------------------------------------------------- C23
\* C23 as stated: after destroy() the instance material is disposed, and the mesh, if
\* one was ever created, is disposed and detached, whether or not an update() has
\* run for the group.
C23_DestroyReleases ==
    disposed.destroyed =>
        /\ disposed.material
        /\ mesh.exists => (disposed.mesh /\ disposed.detached)

\* a group that holds a panel is destroyed before its first update(): it has no mesh
\* yet, and the material its constructor created is not disposed
C23_Witness ==
    /\ disposed.destroyed
    /\ elementCount > 0
    /\ ~mesh.exists
    /\ ~disposed.material

\* ------------------------------------------------------------------- C24
\* a delayed compaction is pending: the timeout of a delete is running
TimerPending == nextUpdateTime.kind = "time" /\ timers # {}

\* C24: destroy() called while the timeout of a delayed compaction is pending cancels
\* it.  destroy() applied to any state with a pending timeout leaves no timeout, and a
\* tick after it runs no update(); in every state after such a destroy() no timeout
\* is left, and no step after it is the timeout's callback or runs update().
C24_DestroyCancelsTimer ==
    /\ [](/\ TimerPending =>
               LET S == destroy(State)
               IN  /\ S.timers = {}
                   /\ ~onFrame(Returned(S)).ranUpdate
          /\ (disposed.destroyed /\ nextUpdateTime.kind = "time") =>
               /\ timers = {}
               /\ ~onFrame(State).ranUpdate)
    /\ [][(disposed.destroyed /\ nextUpdateTime.kind = "time") =>
              /\ last'.op # "timeout"
              /\ ~last'.ranUpdate
              /\ nextUpdateTime'.kind = "time"]_vars

\* a group was destroyed while the timeout of a slow-path delete was pending, and the
\* time of the timeout has come: nothing fired, the rearrangement is still unserved
C24_Witness ==
    /\ disposed.destroyed
    /\ last.op = "time"
    /\ nextUpdateTime = AtTime(0)
    /\ unserved >= 1
    /\ timers = {}

\* ------------------------------------------------------------------- C30
\* C30: the capacity after update() as a function of n = elementCount and cap =
\* bufferElementSize.  update() resizes, once, to ceil(1.5 * n) exactly when n > 0 and
\* (n > cap or 3 * n <= cap); when n = 0 or cap / 3 < n <= cap it does not resize and
\* the capacity stays.  In particular n = cap is no resize and 3 * n = cap is a shrink.
C30_UpdatePolicy ==
    LET n == elementCount
        cap == bufferElementSize
        S == update(State)
    IN  /\ (n > 0 /\ (n > cap \/ 3 * n <= cap)) =>
              /\ S.bufferElementSize = CeilOneAndAHalf(n)
              /\ S.bufferElementSize # cap
              /\ Resizes(S.log) = 1
        /\ (n = 0 \/ (cap < 3 * n /\ n <= cap)) =>
              /\ S.bufferElementSize = cap
              /\ Resizes(S.log) = 0
        /\ (n > 0 /\ n = cap) => S.bufferElementSize = cap
        /\ (n > 0 /\ 3 * n = cap) => S.bufferElementSize = CeilOneAndAHalf(n) /\ S.bufferElementSize < cap

\* an update() has run at the boundary 3 * n = cap and has shrunk the capacity
C30_Witness ==
    /\ last.ranUpdate
    /\ elementCount > 0
    /\ last.sizeBefore = 3 * elementCount
    /\ bufferElementSize = CeilOneAndAHalf(elementCount)
    /\ Resizes(last.log) = 1

\* ------------------------------------------------------- PanelGroupManager
\* bounds of the manager's inputs
MaxGroups == 2
MaxMajorIndex == 1
MaxRenderOrder == 1

\* x << 2 keeps the 32-bit range: majorIndex values from -2^29 to 2^29 - 1
MinShifted == -536870912
MaxShifted == 536870911

MaterialClasses == {"MeshBasicMaterial", "MeshPhongMaterial"}
MajorIndices == 0..MaxMajorIndex
RenderOrders == 0..MaxRenderOrder
GroupKeyProperties ==
    [panelMaterialClass : MaterialClasses, receiveShadow : BOOLEAN, castShadow : BOOLEAN]

\* x << 2 on a 32-bit integer: the low 30 bits of x move up by two, the upper of
\* them becomes the sign
ShiftLeft2(x) ==
    LET low == x % 1073741824
    IN  IF low < 536870912
        THEN low * 4
        ELSE (low - 536870912) * 4 - 2147483647 - 1

\* a key that shifts the major index by one bit only
packedKey_shiftOne(majorIndex, receiveShadow, castShadow) ==
    2 * majorIndex + (IF receiveShadow THEN 2 ELSE 0) + (IF castShadow THEN 1 ELSE 0)

\* (majorIndex << 2) + ((receiveShadow ? 1 : 0) << 1) + (castShadow ? 1 : 0)
packedKey(majorIndex, receiveShadow, castShadow) ==
    ShiftLeft2(majorIndex) + (IF receiveShadow THEN 2 ELSE 0) + (IF castShadow THEN 1 ELSE 0)

\* the manager as a record, so that its methods compose as in the source
Manager ==
    [map |-> map, renderOrder |-> renderOrder, depthTest |-> depthTest,
     onFrameSet |-> onFrameSet, subscriptions |-> subscriptions,
     constructions |-> constructions]

\* new InstancedPanelGroup(renderOrder, depthTest, ..., orderInfo, receiveShadow,
\* castShadow): the fields of a group that the manager sets or reads; serial tells
\* one constructed object from another
newInstancedPanelGroup(serial, order, depth, majorIndex, properties) ==
    [serial |-> serial,
     renderOrder |-> order,
     depthTest |-> depth,
     majorIndex |-> majorIndex,
     materialClass |-> properties.panelMaterialClass,
     meshReceiveShadow |-> properties.receiveShadow,
     meshCastShadow |-> properties.castShadow,
     mesh |-> FALSE,
     meshRenderOrder |-> 0,
     destroyed |-> FALSE]

\* setDepthTest: this.instanceMaterial.depthTest = depthTest
setDepthTest(group, depth) == [group EXCEPT !.depthTest = depth]

\* setRenderOrder that leaves the mesh as it is
setRenderOrder_fieldOnly(group, order) == [group EXCEPT !.renderOrder = order]

\* setRenderOrder: the field, and the mesh if there is one
setRenderOrder(group, order) ==
    [group EXCEPT !.renderOrder = order,
                  !.meshRenderOrder = IF group.mesh THEN order ELSE @]

\* onFrame() of a group whose update() resizes: resize() makes a new mesh with
\* this.renderOrder and the instance material of the group
updateWithResize(group) ==
    [group EXCEPT !.mesh = TRUE, !.meshRenderOrder = group.renderOrder]

\* destroy() of a group
destroyGroup(group) == [group EXCEPT !.destroyed = TRUE]

\* the groups of every material class
groupsOf(M) == {M.map[at] : at \in DOMAIN M.map}

\* traverse: fn on every group of every material class; fn maps each group to what
\* the call makes of it
traverse(M, fn) ==
    [M EXCEPT !.map = [at \in DOMAIN M.map |-> fn[M.map[at]]]]

\* getGroup: the group at (panelMaterialClass, key), constructed if there is none
getGroup(M, majorIndex, properties) ==
    LET key == packedKey(majorIndex, properties.receiveShadow, properties.castShadow)
        at == <<properties.panelMaterialClass, key>>
        panelGroup == newInstancedPanelGroup(M.constructions + 1, M.renderOrder,
                                             M.depthTest, majorIndex, properties)
    IN  IF at \in DOMAIN M.map
        THEN [manager |-> M, panelGroup |-> M.map[at], constructed |-> FALSE]
        ELSE [manager |-> [M EXCEPT !.map = [k \in DOMAIN M.map \cup {at} |->
                                                IF k = at THEN panelGroup ELSE M.map[k]],
                                    !.constructions = @ + 1],
              panelGroup |-> panelGroup,
              constructed |-> TRUE]

\* the initializers run: onFrame joins root.onFrameSet, and each effect runs once
\* when it is created
initialize(M) ==
    LET added == [M EXCEPT !.onFrameSet = TRUE, !.subscriptions = "initialized"]
        ordered == traverse(added, [group \in groupsOf(added) |->
                                     setRenderOrder(group, M.renderOrder)])
    IN  traverse(ordered, [group \in groupsOf(ordered) |-> setDepthTest(group, M.depthTest)])

\* cleanup that only leaves the frame set
cleanup_unsubscribesOnly(M) ==
    [M EXCEPT !.onFrameSet = FALSE, !.subscriptions = "cleaned"]

\* the cleanup functions of the initializers run: onFrame leaves root.onFrameSet,
\* every group is destroyed, the effects are disposed
cleanup(M) ==
    traverse([M EXCEPT !.onFrameSet = FALSE, !.subscriptions = "cleaned"],
             [group \in groupsOf(M) |-> destroyGroup(group)])

\* renderOrder.value = order: the effect, while it is subscribed, tells every group
changeRenderOrder(M, order) ==
    LET changed == [M EXCEPT !.renderOrder = order]
    IN  IF M.subscriptions = "initialized"
        THEN traverse(changed, [group \in groupsOf(changed) |-> setRenderOrder(group, order)])
        ELSE changed

\* depthTest.value = depth: the effect, while it is subscribed, tells every group
changeDepthTest(M, depth) ==
    LET changed == [M EXCEPT !.depthTest = depth]
    IN  IF M.subscriptions = "initialized"
        THEN traverse(changed, [group \in groupsOf(changed) |-> setDepthTest(group, depth)])
        ELSE changed

\* the host calls what is in root.onFrameSet: the manager's onFrame calls onFrame()
\* of every group; the update() of the groups in resizing makes a new mesh
frame(M, resizing) ==
    IF ~M.onFrameSet
    THEN M
    ELSE [M EXCEPT !.map = [at \in DOMAIN M.map |->
                               IF at \in resizing
                               THEN updateWithResize(M.map[at])
                               ELSE M.map[at]]]

ManagerBecomes(M) ==
    /\ map' = M.map
    /\ renderOrder' = M.renderOrder
    /\ depthTest' = M.depthTest
    /\ onFrameSet' = M.onFrameSet
    /\ subscriptions' = M.subscriptions
    /\ constructions' = M.constructions

GetGroup ==
    \E majorIndex \in MajorIndices, properties \in GroupKeyProperties :
        LET got == getGroup(Manager, majorIndex, properties)
        IN  /\ got.manager.constructions <= MaxGroups
            /\ ManagerBecomes(got.manager)
            /\ ticked' = {}
            /\ UNCHANGED <<groupVars, convertVars, layoutVars>>

Initialize ==
    /\ subscriptions = "none"
    /\ ManagerBecomes(initialize(Manager))
    /\ ticked' = {}
    /\ UNCHANGED <<groupVars, convertVars, layoutVars>>

Cleanup ==
    /\ subscriptions = "initialized"
    /\ ManagerBecomes(cleanup(Manager))
    /\ ticked' = {}
    /\ UNCHANGED <<groupVars, convertVars, layoutVars>>

SetRenderOrder ==
    \E order \in RenderOrders :
        /\ order # renderOrder
        /\ ManagerBecomes(changeRenderOrder(Manager, order))
        /\ ticked' = {}
        /\ UNCHANGED <<groupVars, convertVars, layoutVars>>

SetDepthTest ==
    /\ ManagerBecomes(changeDepthTest(Manager, ~depthTest))
    /\ ticked' = {}
    /\ UNCHANGED <<groupVars, convertVars, layoutVars>>

Frame ==
    \E resizing \in SUBSET DOMAIN map :
        /\ ManagerBecomes(frame(Manager, resizing))
        /\ ticked' = IF onFrameSet THEN DOMAIN map ELSE {}
        /\ UNCHANGED <<groupVars, convertVars, layoutVars>>

ManagerInit ==
    /\ Constructed
    /\ NewManager
    /\ renderOrder \in RenderOrders
    /\ depthTest \in BOOLEAN
    /\ NoDocument
    /\ NewRoot

ManagerNext ==
    GetGroup \/ Initialize \/ Cleanup \/ SetRenderOrder \/ SetDepthTest \/ Frame

ManagerSpec == ManagerInit /\ [][ManagerNext]_vars

\* ------------------------------------------------------------------- C25
\* major indices at the ends of the range that x << 2 keeps, and around zero
KeySamples == MajorIndices \cup {MinShifted, MinShifted + 1, -1, MaxShifted - 1, MaxShifted}

\* the packed key tells any two triples apart
PackedKeyInjective ==
    \A m1, m2 \in KeySamples, r1, r2, c1, c2 \in BOOLEAN :
        packedKey(m1, r1, c1) = packedKey(m2, r2, c2) => (m1 = m2 /\ r1 = r2 /\ c1 = c2)

\* the request a group was constructed for
RequestOf(group) ==
    <<group.materialClass, group.majorIndex, group.meshReceiveShadow, group.meshCastShadow>>

\* C25: two getGroup calls return the same group if and only if they agree on material
\* class, majorIndex, receiveShadow and castShadow; the packed key is injective over
\* the triples; a group is constructed only on the first request for its key.  In
\* every reachable state: the groups of the map are distinct objects, one per
\* constructor call, each stored under the key of its own request; and for any two
\* calls in a row the returned groups are the same object iff the requests agree; a
\* call constructs iff no earlier call made the same request, and the same request
\* again returns the same object and leaves the map as it is.
C25_RegistryCache ==
    /\ PackedKeyInjective
    /\ constructions = Cardinality(DOMAIN map)
    /\ \A at1, at2 \in DOMAIN map : map[at1].serial = map[at2].serial => at1 = at2
    /\ \A at \in DOMAIN map :
          /\ at[1] = map[at].materialClass
          /\ at[2] = packedKey(map[at].majorIndex, map[at].meshReceiveShadow,
                               map[at].meshCastShadow)
    /\ \A m1 \in MajorIndices, p1 \in GroupKeyProperties :
          LET first == getGroup(Manager, m1, p1)
              again == getGroup(first.manager, m1, p1)
              known == {RequestOf(map[at]) : at \in DOMAIN map}
          IN  /\ RequestOf(first.panelGroup) = <<p1.panelMaterialClass, m1,
                                                 p1.receiveShadow, p1.castShadow>>
              /\ first.constructed <=> RequestOf(first.panelGroup) \notin known
              /\ again.panelGroup = first.panelGroup
              /\ ~again.constructed
              /\ again.manager = first.manager
              /\ \A m2 \in MajorIndices, p2 \in GroupKeyProperties :
                    (getGroup(first.manager, m2, p2).panelGroup.serial
                         = first.panelGroup.serial)
                        <=> (m1 = m2 /\ p1 = p2)

\* the map holds two groups that differ in one flag only, under both material classes
C25_Witness ==
    /\ constructions = MaxGroups
    /\ \E at1, at2 \in DOMAIN map :
          /\ at1[1] # at2[1]
          /\ at1[2] = at2[2] + 1
          /\ map[at1].majorIndex = MaxMajorIndex
          /\ map[at2].majorIndex = MaxMajorIndex

\* ------------------------------------------------------------------- C26
\* the effects of the initializers are subscribed to the two signals
Subscribed == subscriptions = "initialized"

\* a group has the settings
HasSettings(group, order, depth) ==
    /\ group.renderOrder = order
    /\ group.depthTest = depth
    /\ group.mesh => group.meshRenderOrder = order

C27_Teardown ==
    /\ [](/\ constructions = Cardinality(DOMAIN map)
          /\ LET M == cleanup(Manager)
             IN  /\ DOMAIN M.map = DOMAIN map
                 /\ \A at \in DOMAIN M.map : M.map[at].destroyed
                 /\ ~M.onFrameSet
                 /\ \A resizing \in SUBSET DOMAIN M.map : frame(M, resizing) = M
          /\ subscriptions = "cleaned" => ~onFrameSet)
    /\ [][(subscriptions = "initialized" /\ subscriptions' = "cleaned") =>
              /\ DOMAIN map' = DOMAIN map
              /\ \A at \in DOMAIN map : map'[at].destroyed]_vars
    /\ [][subscriptions = "cleaned" =>
              /\ ticked' = {}
              /\ \A at \in DOMAIN map : map'[at] = map[at]]_vars

\* the manager was torn down with groups of both material classes, one of them with
\* a mesh: both are destroyed, and a frame after the teardown has reached none
C27_Witness ==
    /\ subscriptions = "cleaned"
    /\ constructions = MaxGroups
    /\ \A at \in DOMAIN map : map[at].destroyed
    /\ \E at1, at2 \in DOMAIN map : at1[1] # at2[1] /\ map[at1].mesh
    /\ ticked = {}
    /\ ~onFrameSet

\* ---------------------------------------------------------- HTML conversion
\* convertParsedHtml (convert/html/internals.ts) on the tree node-html-parser returns.
\* A text is a sequence of characters.  The attributes of an element are modelled by
\* what convertMergeSortProperties makes of them: nothing, the class sr-only, or one
\* inheriting property.  generate is the constructor of a component record.

\* bound: the number of nodes of a document below the parser's root
MaxNodes == 4

Whitespace == " "
BlankText == <<Whitespace>>
PaddedText == <<Whitespace, "a", Whitespace>>
SpacedText == <<"b", Whitespace, "b">>
Texts == {BlankText, PaddedText, SpacedText}

NoAttributes == "none"
SrOnly == "sr-only"
Inheriting == "inheriting"

\* a TextNode
TextNode(text) ==
    [type |-> "text", rawTagName |-> "", attributes |-> NoAttributes, text |-> text,
     childNodes |-> <<>>]

\* an HTMLElement; the parser's root has no tag name
HTMLElement(rawTagName, attributes, childNodes) ==
    [type |-> "element", rawTagName |-> rawTagName, attributes |-> attributes,
     text |-> <<>>, childNodes |-> childNodes]

NoTagName == ""

Root(childNodes) == HTMLElement(NoTagName, NoAttributes, childNodes)

\* componentMap: the custom components of the caller
customComponents ==
    [Button |-> [renderAs |-> "Button", children |-> "undefined", skipIfEmpty |-> FALSE],
     Divider |-> [renderAs |-> "Divider", children |-> "none", skipIfEmpty |-> FALSE]]

\* htmlDefaults[rawTagName] ?? {}: for div, nothing that sets renderAs or children
htmlDefaults(rawTagName) ==
    [renderAs |-> "undefined", children |-> "undefined", skipIfEmpty |-> FALSE]

\* the nodes without children: texts, svg, and every element when it is empty
Leaves ==
    {TextNode(t) : t \in Texts}
        \cup {HTMLElement("svg", NoAttributes, <<>>),
              HTMLElement("Divider", NoAttributes, <<>>),
              HTMLElement("Button", NoAttributes, <<>>)}
        \cup {HTMLElement("div", a, <<>>) : a \in {NoAttributes, SrOnly, Inheriting}}

RECURSIVE Forests(_)
\* the sequences of trees with n nodes in all
Forests(n) ==
    IF n = 0 THEN {<<>>}
    ELSE UNION {
           LET under == IF k = 1 THEN {} ELSE Forests(k - 1)
               trees == (IF k = 1 THEN Leaves ELSE {})
                          \cup {HTMLElement("div", a, f) :
                                   a \in {NoAttributes, SrOnly, Inheriting}, f \in under}
                          \cup {HTMLElement("Button", NoAttributes, f) : f \in under}
           IN  {<<t>> \o rest : t \in trees, rest \in Forests(n - k)}
           : k \in 1..n}

\* the documents of at most maxNodes nodes
Documents(maxNodes) == UNION {Forests(n) : n \in 0..maxNodes}

\* String.prototype.trim that leaves the text as it is
trim_nothing(text) == text

RECURSIVE TrimStart(_)
TrimStart(text) ==
    IF text # <<>> /\ Head(text) = Whitespace THEN TrimStart(Tail(text)) ELSE text

RECURSIVE TrimEnd(_)
TrimEnd(text) ==
    IF text # <<>> /\ text[Len(text)] = Whitespace
    THEN TrimEnd(SubSeq(text, 1, Len(text) - 1))
    ELSE text

\* String.prototype.trim
trim(text) == TrimEnd(TrimStart(text))

\* generate(renderAs, custom, properties, index, children); a string among the
\* children is the component "string" with its text
generate(renderAs, custom, properties, index, withChildren, children) ==
    [renderAs |-> renderAs, custom |-> custom, properties |-> properties,
     index |-> index, withChildren |-> withChildren, children |-> children,
     text |-> <<>>]

StringChild(text) ==
    [renderAs |-> "string", custom |-> FALSE, properties |-> {}, index |-> 0,
     withChildren |-> FALSE, children |-> <<>>, text |-> text]

\* the result undefined
Nothing ==
    [renderAs |-> "undefined", custom |-> FALSE, properties |-> {}, index |-> 0,
     withChildren |-> FALSE, children |-> <<>>, text |-> <<>>]

\* filterTextNode
filterTextNode(node) == node.type = "text"

\* convertMergeSortProperties: the names of the properties, the inheriting ones
\* apart, and whether a class is sr-only
convertMergeSortProperties(defaultProperties, attributes) ==
    [properties |-> defaultProperties,
     inheritingProperties |-> IF attributes = Inheriting THEN {"color"} ELSE {},
     srOnly |-> attributes = SrOnly]

\* nodeToConversionData that takes one text node for a text-only element
nodeToConversionData_someText(node) ==
    IF node.type = "text"
    THEN [renderAs |-> "Text", children |-> "text", skipIfEmpty |-> FALSE, custom |-> FALSE]
    ELSE IF node.rawTagName = NoTagName
    THEN [renderAs |-> "Fragment", children |-> "undefined", skipIfEmpty |-> TRUE,
          custom |-> FALSE]
    ELSE IF node.rawTagName \in DOMAIN customComponents
    THEN [renderAs |-> customComponents[node.rawTagName].renderAs,
          children |-> customComponents[node.rawTagName].children,
          skipIfEmpty |-> customComponents[node.rawTagName].skipIfEmpty,
          custom |-> TRUE]
    ELSE LET defaults == htmlDefaults(node.rawTagName)
             textOnly ==
                 /\ Len(node.childNodes) > 0
                 /\ \E i \in 1..Len(node.childNodes) :
                       /\ node.childNodes[i].type = "text"
                       /\ Len(trim(node.childNodes[i].text)) > 0
             renderAs == IF textOnly /\ defaults.renderAs = "undefined"
                         THEN "Text" ELSE defaults.renderAs
             children == IF textOnly /\ defaults.children = "undefined"
                         THEN "text" ELSE defaults.children
         IN  [renderAs |-> IF renderAs = "undefined" THEN "Container" ELSE renderAs,
              children |-> children,
              skipIfEmpty |-> defaults.skipIfEmpty,
              custom |-> FALSE]

nodeToConversionData(node) ==
    IF node.type = "text"
    THEN [renderAs |-> "Text", children |-> "text", skipIfEmpty |-> FALSE, custom |-> FALSE]
    ELSE IF node.rawTagName = NoTagName
    THEN [renderAs |-> "Fragment", children |-> "undefined", skipIfEmpty |-> TRUE,
          custom |-> FALSE]
    ELSE IF node.rawTagName \in DOMAIN customComponents
    THEN [renderAs |-> customComponents[node.rawTagName].renderAs,
          children |-> customComponents[node.rawTagName].children,
          skipIfEmpty |-> customComponents[node.rawTagName].skipIfEmpty,
          custom |-> TRUE]
    ELSE LET defaults == htmlDefaults(node.rawTagName)
             textOnly ==
                 /\ Len(node.childNodes) > 0
                 /\ \A i \in 1..Len(node.childNodes) : node.childNodes[i].type = "text"
                 /\ \E i \in 1..Len(node.childNodes) :
                       /\ node.childNodes[i].type = "text"
                       /\ Len(trim(node.childNodes[i].text)) > 0
             renderAs == IF textOnly /\ defaults.renderAs = "undefined"
                         THEN "Text" ELSE defaults.renderAs
             children == IF textOnly /\ defaults.children = "undefined"
                         THEN "text" ELSE defaults.children
         IN  [renderAs |-> IF renderAs = "undefined" THEN "Container" ELSE renderAs,
              children |-> children,
              skipIfEmpty |-> defaults.skipIfEmpty,
              custom |-> FALSE]

\* childNodes.filter(filterTextNode).map((e) => e.text.trim()).filter((text) =>
\* text.length > 0), as children of a component
TrimmedTexts(childNodes) ==
    LET texts == SelectSeq(childNodes, filterTextNode)
        trimmed == [i \in 1..Len(texts) |-> trim(texts[i].text)]
        kept == SelectSeq(trimmed, LAMBDA text : Len(text) > 0)
    IN  [i \in 1..Len(kept) |-> StringChild(kept[i])]

\* filterNull
filterNull(val) == val # Nothing

RECURSIVE convertParsedHtmlRecursive(_, _)
convertParsedHtmlRecursive(node, index) ==
    IF node.type = "element" /\ node.rawTagName = "svg"
    THEN LET merged == convertMergeSortProperties({"svgWidth", "svgHeight", "text"},
                                                  node.attributes)
         IN  IF merged.srOnly
             THEN Nothing
             ELSE generate("Icon", FALSE,
                           merged.inheritingProperties \cup merged.properties,
                           index, FALSE, <<>>)
    ELSE
    LET data == nodeToConversionData(node)
        isElement == node.type = "element"
        merged == IF isElement
                  THEN convertMergeSortProperties({}, node.attributes)
                  ELSE [properties |-> {}, inheritingProperties |-> {}, srOnly |-> FALSE]
        all == merged.inheritingProperties \cup merged.properties
    IN  IF data.skipIfEmpty /\ Len(node.childNodes) = 0
        THEN Nothing
        ELSE IF data.skipIfEmpty /\ Len(node.childNodes) = 1
        THEN convertParsedHtmlRecursive(node.childNodes[1], index)
        ELSE IF merged.srOnly
        THEN Nothing
        ELSE IF data.children = "none"
        THEN generate(data.renderAs, data.custom, all, index, FALSE, <<>>)
        ELSE IF data.children = "text"
        THEN IF node.type # "text"
             THEN generate(data.renderAs, data.custom, all, index, TRUE,
                           TrimmedTexts(node.childNodes))
             ELSE IF Len(trim(node.text)) = 0
             THEN Nothing
             ELSE generate(data.renderAs, data.custom, all, index, TRUE,
                           <<StringChild(trim(node.text))>>)
        ELSE LET each == [i \in 1..Len(node.childNodes) |->
                            convertParsedHtmlRecursive(node.childNodes[i], i - 1)]
                 result == generate(data.renderAs, data.custom, merged.properties, index,
                                    TRUE, SelectSeq(each, filterNull))
             IN  IF ~isElement \/ merged.inheritingProperties # {}
                 THEN generate("DefaultProperties", FALSE, merged.inheritingProperties,
                               index, TRUE, <<result>>)
                 ELSE result

\* convertParsedHtml: the conversion of the parser's root, at index 0
convertParsedHtml(childNodes) == convertParsedHtmlRecursive(Root(childNodes), 0)

\* convertHtml is called on a document
Convert ==
    /\ ~converted.done
    /\ converted' = [done |-> TRUE, result |-> convertParsedHtml(document)]
    /\ UNCHANGED <<document, groupVars, managerVars, layoutVars>>

ConvertInit ==
    /\ Constructed
    /\ NewManager
    /\ renderOrder = 0
    /\ depthTest = TRUE
    /\ document \in Documents(MaxNodes)
    /\ converted = [done |-> FALSE, result |-> <<>>]
    /\ NewRoot

ConvertNext == Convert

ConvertSpec == ConvertInit /\ [][ConvertNext]_vars

\* a text of whitespace only
IsBlank(text) == \A i \in 1..Len(text) : text[i] = Whitespace

BlankTextNode(node) == node.type = "text" /\ IsBlank(node.text)

RECURSIVE NodesIn(_)
\* every node below the given child nodes, with its index among its siblings
NodesIn(childNodes) ==
    UNION {{<<childNodes[i], i - 1>>} \cup NodesIn(childNodes[i].childNodes) :
              i \in 1..Len(childNodes)}

\* the root and every node of the document, with its index
AllNodes == {<<Root(document), 0>>} \cup NodesIn(document)

\* an element without attributes and without content other than whitespace
EmptyElement(node) ==
    /\ node.type = "element"
    /\ node.rawTagName = "div"
    /\ node.attributes = NoAttributes
    /\ \A i \in 1..Len(node.childNodes) : BlankTextNode(node.childNodes[i])

\* the component below the DefaultProperties that carries the inheriting properties
Unwrapped(component) ==
    IF component.renderAs = "DefaultProperties" THEN component.children[1] ELSE component

EmptyContainer(index) == generate("Container", FALSE, {}, index, TRUE, <<>>)

\* the positions of the elements among the child nodes, in document order
ElementPositions(childNodes) ==
    SelectSeq([i \in 1..Len(childNodes) |-> i],
              LAMBDA i : childNodes[i].type = "element")

\* C28: a text node of whitespace only converts to nothing and adds no child to the
\* conversion of its parent; a parent whose child nodes are empty elements and
\* whitespace converts to one childless Container per element, in order, and nothing
\* else; an element whose only content is whitespace converts to a Container without
\* children (below DefaultProperties when it has inheriting properties).
C28_BlankTextDropped ==
    /\ converted.done => converted.result = convertParsedHtml(document)
    /\ \A pair \in AllNodes :
          LET node == pair[1]
              index == pair[2]
              component == convertParsedHtmlRecursive(node, index)
              elements == ElementPositions(node.childNodes)
          IN  /\ BlankTextNode(node) => component = Nothing
              /\ (component # Nothing /\ node.type = "element"
                    /\ node.rawTagName \in {NoTagName, "div", "Button"}
                    /\ Len(node.childNodes) > 1)
                   => Len(Unwrapped(component).children)
                         <= Cardinality({i \in 1..Len(node.childNodes) :
                                            ~BlankTextNode(node.childNodes[i])})
              /\ (/\ node.type = "element"
                  /\ node.rawTagName \in {NoTagName, "div", "Button"}
                  /\ node.attributes # SrOnly
                  /\ Len(node.childNodes) > 1
                  /\ Len(elements) > 0
                  /\ \A i \in 1..Len(node.childNodes) :
                        \/ BlankTextNode(node.childNodes[i])
                        \/ EmptyElement(node.childNodes[i]))
                   => /\ Unwrapped(component).renderAs
                            = nodeToConversionData(node).renderAs
                      /\ Unwrapped(component).children
                            = [k \in 1..Len(elements) |-> EmptyContainer(elements[k] - 1)]
              /\ (/\ node.type = "element"
                  /\ node.rawTagName = "div"
                  /\ node.attributes # SrOnly
                  /\ Len(node.childNodes) > 0
                  /\ \A i \in 1..Len(node.childNodes) : BlankTextNode(node.childNodes[i]))
                   => /\ Unwrapped(component) = EmptyContainer(index)
                      /\ (component.renderAs = "DefaultProperties")
                            <=> (node.attributes = Inheriting)

\* C28 witness: <div> </div> <div></div> was converted to a fragment of two
\* Containers without children
C28_Witness ==
    /\ converted.done
    /\ document = <<HTMLElement("div", NoAttributes, <<TextNode(BlankText)>>),
                    TextNode(BlankText),
                    HTMLElement("div", NoAttributes, <<>>)>>
    /\ converted.result
          = generate("Fragment", FALSE, {}, 0, TRUE,
                     <<EmptyContainer(0), EmptyContainer(2)>>)

\* text is what is left of whole without the whitespace at its two ends
IsTrimOf(text, whole) ==
    /\ text # <<>>
    /\ text[1] # Whitespace
    /\ text[Len(text)] # Whitespace
    /\ \E i \in 1..Len(whole) :
          /\ i + Len(text) - 1 <= Len(whole)
          /\ text = SubSeq(whole, i, i + Len(text) - 1)
          /\ \A k \in 1..Len(whole) :
                (k < i \/ k > i + Len(text) - 1) => whole[k] = Whitespace

\* the positions of the child nodes that keep holds of, in document order
PositionsWhere(keep) ==
    SelectSeq([i \in DOMAIN keep |-> i], LAMBDA i : keep[i])

C31_SlowRemove ==
    ~disposed.destroyed =>
        \A e \in Live :
            LET S == delete(State, BucketIndexOf(e), indexInBucket[e], e)
            IN  /\ S.needsRearrange <=> LeavesHole(e)
                /\ LeavesHole(e) =>
                      /\ S.elementCount = elementCount - 1
                      /\ ~IsLive(S.buckets, e)
                      /\ S.mesh = mesh
                      /\ ~S.threw
                      /\ S.bufferElementSize = bufferElementSize
                      /\ Idle => /\ S.nextUpdateTime = AtTime(DeleteDelay)
                                 /\ S.timers = {DeleteDelay}
                                 /\ S.nextUpdateTimeoutRef = Timeout(DeleteDelay)
                      /\ nextUpdateTime.kind = "time" =>
                            /\ S.nextUpdateTime.kind = "time"
                            /\ S.nextUpdateTime.at <= DeleteDelay
                            /\ S.timers = {S.nextUpdateTime.at}
                      /\ nextUpdateTime = nextFrame =>
                            /\ S.nextUpdateTime = nextFrame
                            /\ S.timers = timers

\* C31 witness: a slow-path delete from a drawn group has started the timeout; the
\* draw count still counts the deleted panel
C31_Witness ==
    /\ last.op = "delete"
    /\ last.needsRearrange
    /\ nextUpdateTime = AtTime(DeleteDelay)
    /\ timers = {DeleteDelay}
    /\ mesh.exists /\ mesh.visible
    /\ mesh.count = elementCount + 1

\* the rearrangement as update() runs it: after the resize when the capacity is short
Rearranged(S) ==
    IF S.elementCount > S.bufferElementSize
    THEN updateSortedBucketsAllocation(resize(S))
    ELSE updateSortedBucketsAllocation(S)

\* every placed live panel has its data at its slot
DataAtSlot ==
    \A e \in Live : slot[e] # NoIndex => instanceData[slot[e]] = e

\* the state S is compact: offsets are running sums, the live panels fill the slots
\* 0..n-1, each panel was told its index and its slot holds its data
Compact(S) ==
    /\ \A k \in 1..Len(S.buckets) :
          S.buckets[k].offset
             = IF k = 1 THEN 0
               ELSE S.buckets[k - 1].offset + Len(S.buckets[k - 1].elements)
    /\ {SlotIn(S, e) : e \in Live} = 0..(Cardinality(Live) - 1)
    /\ \A e \in Live :
          LET bucket == S.buckets[BucketOf(S.buckets, e)]
          IN  /\ S.indexInBucket[e] = IndexOf(bucket.elements, e) - 1
              /\ S.slot[e] = SlotIn(S, e)
              /\ SlotIn(S, e) < S.bufferElementSize
              /\ S.instanceData[SlotIn(S, e)] = e

\* C32: in every reachable state every placed panel has its data at its slot, and the
\* rearrangement, run as update() runs it, leaves every bucket's offset equal to the
\* sum of the sizes of the buckets before it, the live panels at exactly the slots
\* 0..n-1, every panel (those waiting for a slot included) told the index it has in
\* its bucket, and at every panel's slot the data of that panel; it changes neither
\* the buckets' elements nor the live count.  The state after an update() that ran
\* with panels is such a state.
C32_RearrangePostcondition ==
    /\ DataAtSlot
    /\ LET S == Rearranged(State)
       IN  /\ Compact(S)
           /\ S.elementCount = elementCount
           /\ Len(S.buckets) = Len(buckets)
           /\ \A k \in 1..Len(buckets) :
                 /\ S.buckets[k].elements = buckets[k].elements
                 /\ S.buckets[k].bucketIndex = buckets[k].bucketIndex
    /\ (last.op = "onFrame" /\ last.ranUpdate /\ elementCount > 0) => Compact(State)

\* C32 witness: one rearrangement has moved a placed panel to another slot and given a
\* waiting panel its slot
C32_Witness ==
    /\ last.op = "onFrame"
    /\ last.ranUpdate
    /\ Rearranges(last.log) = 1
    /\ \E moved \in Live, waiting \in Live :
          /\ last.slotBefore[moved] # NoIndex
          /\ last.slotBefore[moved] # slot[moved]
          /\ instanceData[slot[moved]] = moved
          /\ last.slotBefore[waiting] = NoIndex
          /\ instanceData[slot[waiting]] = waiting

\* the call that led from the state to S has left alone every panel but the given
\* one, every bucket but the one of the given index, the capacity, the arrays outside
\* the given slot (NoIndex: everywhere), and the timeout and the request
FrameKept(S, panel, bucketIndex, affectedSlot) ==
    /\ \A e \in Live \ {panel} :
          /\ IsLive(S.buckets, e)
          /\ S.slot[e] = slot[e]
          /\ S.indexInBucket[e] = indexInBucket[e]
          /\ S.buckets[BucketOf(S.buckets, e)].bucketIndex = BucketIndexOf(e)
    /\ \A k \in 1..Len(buckets) :
          buckets[k].bucketIndex # bucketIndex =>
              \E j \in 1..Len(S.buckets) : S.buckets[j] = buckets[k]
    /\ \A j \in 1..Len(S.buckets) :
          S.buckets[j].bucketIndex # bucketIndex =>
              \E k \in 1..Len(buckets) : S.buckets[j] = buckets[k]
    /\ \A k \in 1..Len(buckets), j \in 1..Len(S.buckets) :
          S.buckets[j].bucketIndex = buckets[k].bucketIndex =>
              S.buckets[j].offset = buckets[k].offset
    /\ S.bufferElementSize = bufferElementSize
    /\ DOMAIN S.instanceData = DOMAIN instanceData
    /\ \A s \in DOMAIN instanceData :
          s # affectedSlot => S.instanceData[s] = instanceData[s]
    /\ S.nextUpdateTime = nextUpdateTime
    /\ S.nextUpdateTimeoutRef = nextUpdateTimeoutRef
    /\ S.timers = timers
    /\ S.mesh.exists = mesh.exists

\* C33: in every reachable state, an insert for which the allocator asks for no
\* rearrangement changes the slot and index of no other panel, the offset of no
\* bucket that was there, the elements of no other bucket, the capacity, no array
\* entry but the one at the new panel's slot, and neither timeout nor request; and a
\* delete for which the allocator asks for no rearrangement changes none of these but
\* the array entry at the deleted panel's slot.
C33_FastPathFrame ==
    /\ \A p \in FreshPanels, b \in BucketIndices :
          LET S == insert(State, b, p)
          IN  ~S.needsRearrange =>
                  /\ S.indexInBucket[p] # NoIndex
                  /\ FrameKept(S, p, b, SlotIn(S, p))
                  /\ S.instanceData[SlotIn(S, p)] = p
                  /\ S.elementCount = elementCount + 1
    /\ \A e \in Live :
          LET S == delete(State, BucketIndexOf(e), indexInBucket[e], e)
          IN  ~S.needsRearrange =>
                  /\ FrameKept(S, e, BucketIndexOf(e),
                               IF Activated(e) THEN SlotOf(e) ELSE NoIndex)
                  /\ S.elementCount = elementCount - 1

\* C33 witness: a fast-path delete was made while a timeout was pending and other
\* panels were placed; the timeout is still pending
C33_Witness ==
    /\ last.op = "delete"
    /\ ~last.needsRearrange
    /\ ~last.threw
    /\ nextUpdateTime.kind = "time"
    /\ timers # {}
    /\ \E e \in Live : Activated(e) /\ instanceData[SlotOf(e)] = e

\* C34: in every reachable state elementCount is the number of panels held in the
\* buckets, placed or waiting for a slot, and is not negative; it is 0 after
\* construction, every insert raises it by one, every delete of a panel of the group
\* lowers it by one, and no other step changes it, so that it is the number of
\* inserts less the number of deletes.
C34_CountAccounting ==
    /\ [](/\ elementCount = TotalSize
          /\ elementCount = Cardinality(Live)
          /\ elementCount >= 0
          /\ last.op = "new" => elementCount = 0)
    /\ [][/\ last'.op = "insert" => elementCount' = elementCount + 1
          /\ last'.op = "delete" => elementCount' = elementCount - 1
          /\ last'.op \notin {"insert", "delete"} => elementCount' = elementCount]_vars

\* C34 witness: after three inserts and a delete two panels are counted, one of them
\* still waiting for its slot
C34_Witness ==
    /\ last.op = "delete"
    /\ elementCount = 2
    /\ TotalSize = 2
    /\ Unplaced # {}
    /\ \E e \in Live : Activated(e)

\* a call has touched no slot outside the arrays
InBounds(log) == \A i \in 1..Len(log) : log[i] # "outOfBounds"

C36_DrawCountCovers ==
    (~disposed.destroyed /\ mesh.exists /\ mesh.visible) =>
        \A e \in Live : Activated(e) => SlotOf(e) < mesh.count

\* C36 witness: a fast-path delete has set the draw count while the hole of an earlier
\* slow-path delete was open: a live panel lies at a slot that is not drawn
C36_Witness ==
    /\ ~disposed.destroyed
    /\ last.op = "delete"
    /\ ~last.needsRearrange
    /\ unserved >= 1
    /\ nextUpdateTime.kind = "time"
    /\ mesh.exists /\ mesh.visible
    /\ \E e \in Live :
          /\ Activated(e)
          /\ instanceData[SlotOf(e)] = e
          /\ SlotOf(e) >= mesh.count

\* C37 as stated: in every reachable state of a group that is not destroyed, deleting
\* the only panel of the group takes the fast path and completes: updateCount() finds
\* a bucket to read, and a mesh that exists is left with draw count 0 and hidden; and
\* no call has thrown.
C37_DeleteOnlyElement ==
    /\ ~last.threw
    /\ (~disposed.destroyed /\ elementCount = 1) =>
          \A e \in Live :
              LET S == delete(State, BucketIndexOf(e), indexInBucket[e], e)
              IN  /\ ~S.needsRearrange
                  /\ ~S.threw
                  /\ S.mesh.exists => S.mesh.count = 0 /\ ~S.mesh.visible

\* C37 witness: the only panel of a drawn group was deleted: updateCount() has thrown
\* on the empty bucket list, and the mesh is still visible with draw count 1
C37_Witness ==
    /\ last.op = "delete"
    /\ ~last.needsRearrange
    /\ last.threw
    /\ buckets = <<>>
    /\ elementCount = 0
    /\ mesh.exists /\ mesh.visible
    /\ mesh.count = 1
    /\ Idle

\* C38: in every reachable state of a group that is not destroyed, a slow-path delete
\* made while a timeout is pending leaves the fire time as it is (a timeout that has
\* less than 1000 ms left is not restarted) and leaves that one timeout pending; no
\* step moves a pending fire time away (time is relative: the time left never grows);
\* a slow-path delete that waits for its rearrangement always has a request standing,
\* a timeout with at most 1000 ms left or a next-frame request; and when the time of
\* the timeout has come, its callback makes the next onFrame() run update().
C38_DeadlineNeverPostponed ==
    /\ [](~disposed.destroyed =>
            /\ nextUpdateTime.kind = "time" =>
                  /\ nextUpdateTime.at <= DeleteDelay
                  /\ timers = {nextUpdateTime.at}
                  /\ \A e \in Live :
                        LeavesHole(e) =>
                            LET S == delete(State, BucketIndexOf(e), indexInBucket[e], e)
                            IN  /\ S.needsRearrange
                                /\ S.nextUpdateTime = nextUpdateTime
                                /\ S.timers = timers
                                /\ nextUpdateTime.at < DeleteDelay =>
                                      S.nextUpdateTimeoutRef = nextUpdateTimeoutRef
            /\ unserved >= 1 => nextUpdateTime # Undefined
            /\ nextUpdateTime = AtTime(0) =>
                  LET fired == requestUpdateNextFrame([State EXCEPT !.timers = {}])
                      S == onFrame(Returned(fired))
                  IN  /\ fired.nextUpdateTime = nextFrame
                      /\ S.ranUpdate
                      /\ S.nextUpdateTime = Undefined)
    /\ [][(nextUpdateTime.kind = "time" /\ nextUpdateTime'.kind = "time"
              /\ ~disposed'.destroyed)
            => nextUpdateTime'.at <= nextUpdateTime.at]_vars

\* C38 witness: a second slow-path delete was made when the time of the timeout of the
\* first had come: the timeout is still due now
C38_Witness ==
    /\ ~disposed.destroyed
    /\ last.op = "delete"
    /\ last.needsRearrange
    /\ unserved = 2
    /\ nextUpdateTime = AtTime(0)
    /\ timers = {0}

\* ------------------------------------------------ deferred layout request
\* createDeferredRequestLayoutCalculation (components/root.ts): the closure variable
\* requestedNode, the onFrame callback and the returned request function.
\* calculateLayout() takes time in which the layout may request a calculation again:
\* it is entered by onFrame and returns in a step of its own.

\* the closure state as a record
Deferred ==
    [requestedNode |-> requestedNode, calculating |-> calculating,
     calculations |-> calculations]

\* onFrame that clears the request only after calculateLayout() has returned
layoutOnFrame_clearsLate(L) ==
    IF L.requestedNode = NoNode
    THEN L
    ELSE [L EXCEPT !.calculating = L.requestedNode,
                   !.calculations[L.requestedNode] = @ + 1]

\* onFrame: up to the call of node.calculateLayout()
layoutOnFrame(L) ==
    IF L.requestedNode = NoNode
    THEN L
    ELSE [L EXCEPT !.calculating = L.requestedNode,
                   !.requestedNode = NoNode,
                   !.calculations[L.requestedNode] = @ + 1]

\* the returned function: (node) => { ... }; yogaNode: node['yogaNode'] != null
requestCalculateLayout(L, node, yogaNode) ==
    IF L.requestedNode # NoNode \/ ~yogaNode
    THEN L
    ELSE [L EXCEPT !.requestedNode = node]

\* node.calculateLayout() returns
calculateLayoutReturns(L) == [L EXCEPT !.calculating = NoNode]

DeferredBecomes(L) ==
    /\ requestedNode' = L.requestedNode
    /\ calculating' = L.calculating
    /\ calculations' = L.calculations

\* a layout calculation is requested for a node, also from within calculateLayout()
RequestCalculateLayout ==
    \E node \in FlexNodes, yogaNode \in BOOLEAN :
        /\ DeferredBecomes(requestCalculateLayout(Deferred, node, yogaNode))
        /\ lastLayout' = [op |-> "request", node |-> node, yogaNode |-> yogaNode,
                          ran |-> NoNode]
        /\ UNCHANGED <<layoutSubscribed, groupVars, managerVars, convertVars>>

\* the host runs a frame: every callback of root.onFrameSet is called
LayoutFrame ==
    /\ calculating = NoNode
    /\ requestedNode # NoNode => calculations[requestedNode] < MaxCalculations
    /\ LET L == IF layoutSubscribed THEN layoutOnFrame(Deferred) ELSE Deferred
       IN  /\ DeferredBecomes(L)
           /\ lastLayout' = [op |-> "frame", node |-> NoNode, yogaNode |-> FALSE,
                             ran |-> L.calculating]
    /\ UNCHANGED <<layoutSubscribed, groupVars, managerVars, convertVars>>

\* calculateLayout() returns, and with it onFrame
CalculateLayoutReturns ==
    /\ calculating # NoNode
    /\ DeferredBecomes(calculateLayoutReturns(Deferred))
    /\ lastLayout' = [op |-> "return", node |-> calculating, yogaNode |-> FALSE,
                      ran |-> NoNode]
    /\ UNCHANGED <<layoutSubscribed, groupVars, managerVars, convertVars>>

\* destroyRoot: the subscriptions are unsubscribed, onFrame leaves root.onFrameSet
DestroyRoot ==
    /\ layoutSubscribed
    /\ calculating = NoNode
    /\ layoutSubscribed' = FALSE
    /\ lastLayout' = [op |-> "destroyRoot", node |-> NoNode, yogaNode |-> FALSE,
                      ran |-> NoNode]
    /\ UNCHANGED <<requestedNode, calculating, calculations, groupVars, managerVars,
                   convertVars>>

LayoutInit == Init

LayoutNext == RequestCalculateLayout \/ LayoutFrame \/ CalculateLayoutReturns \/ DestroyRoot

LayoutSpec == LayoutInit /\ [][LayoutNext]_vars

\* C39: in every reachable state at most one node is requested; a request made while
\* one is pending, or for a node without a yoga node, changes nothing, and any other
\* request makes its node the pending one; onFrame with nothing pending changes
\* nothing; onFrame with a node pending clears the request and calls that node's
\* calculateLayout() once, so that a request made while calculateLayout() runs is
\* accepted and is served by the onFrame of the following frame.  In every step,
\* calculateLayout() is called only by a frame, while onFrame is in root.onFrameSet,
\* once, for the node that was pending, and a frame with nothing pending changes
\* nothing.
C39_DeferredLayout ==
    /\ [](/\ requestedNode \in FlexNodes \cup {NoNode}
          /\ calculating \in FlexNodes \cup {NoNode}
          /\ \A node \in FlexNodes, yogaNode \in BOOLEAN :
                LET R == requestCalculateLayout(Deferred, node, yogaNode)
                IN  /\ (requestedNode # NoNode \/ ~yogaNode) => R = Deferred
                    /\ (requestedNode = NoNode /\ yogaNode) =>
                          R = [Deferred EXCEPT !.requestedNode = node]
          /\ requestedNode = NoNode => layoutOnFrame(Deferred) = Deferred
          /\ (requestedNode # NoNode /\ calculating = NoNode) =>
                LET F == layoutOnFrame(Deferred)
                IN  /\ F.calculating = requestedNode
                    /\ F.requestedNode = NoNode
                    /\ F.calculations
                          = [calculations EXCEPT ![requestedNode] = @ + 1]
                    /\ \A node \in FlexNodes :
                          LET during == requestCalculateLayout(F, node, TRUE)
                              following == layoutOnFrame(calculateLayoutReturns(during))
                          IN  /\ during.requestedNode = node
                              /\ during.calculations = F.calculations
                              /\ following.calculating = node
                              /\ following.requestedNode = NoNode
                              /\ following.calculations
                                    = [F.calculations EXCEPT ![node] = @ + 1])
    /\ [][/\ calculations' # calculations =>
                /\ lastLayout'.op = "frame"
                /\ layoutSubscribed
                /\ requestedNode # NoNode
                /\ calculating = NoNode
                /\ calculating' = requestedNode
                /\ requestedNode' = NoNode
                /\ calculations' = [calculations EXCEPT ![requestedNode] = @ + 1]
          /\ (lastLayout'.op = "frame" /\ layoutSubscribed /\ requestedNode # NoNode) =>
                calculations' # calculations
          /\ (lastLayout'.op = "frame" /\ requestedNode = NoNode) =>
                UNCHANGED <<requestedNode, calculating, calculations>>]_vars

\* C39 witness: while calculateLayout() of node 1 runs in a frame, a request for node
\* 2 was made and is pending for the following frame
C39_Witness ==
    /\ lastLayout.op = "request"
    /\ lastLayout.node = 2
    /\ lastLayout.yogaNode
    /\ calculating = 1
    /\ requestedNode = 2
    /\ calculations = [node \in FlexNodes |-> IF node = 1 THEN 1 ELSE 0]
    /\ layoutSubscribed

====
